---- MODULE Spec2Model ----
(***************************************************************************)
(* Model of fetch_portad_dashboard.py: the snapshot differ, the entity     *)
(* matcher, the summary composer and the notification builder.             *)
(*                                                                         *)
(* Python values are tagged records:                                       *)
(*   None          [t |-> "null"]                                          *)
(*   str           [t |-> "str",   s |-> "text"]                           *)
(*   int           [t |-> "int",   n |-> 3]                                *)
(*   list          [t |-> "list",  e |-> <<v1, ..., vn>>]                  *)
(*   tuple         [t |-> "tuple", e |-> <<v1, ..., vn>>]                  *)
(*   dict          [t |-> "dict",  k |-> <<key1, ...>>, v |-> <<v1, ...>>] *)
(* A dict keeps its keys in insertion order, as Python does; a key is a    *)
(* plain string.  Python str values are TLA+ strings, so len, slicing and  *)
(* concatenation are Len, SubSeq and \o.                                   *)
(*                                                                         *)
(* The source file spells its non-ASCII literals with several characters   *)
(* each (for instance four characters before " {key} : " in a tile line).  *)
(* The model writes an ASCII stand-in of the same length for each run of   *)
(* such characters: "e/" and "e^" for the two accented e, "o." for the     *)
(* degree sign, "---" for the dash, "(o)" for the bullet, "D>" for the     *)
(* delta and a bracketed tag such as "[ti]" for each pictogram.            *)
(***************************************************************************)
EXTENDS Integers, Sequences, FiniteSets, TLC

VARIABLES pc, args, ret

vars == <<pc, args, ret>>

(***************************************************************************)
(* Bounds of the model.                                                    *)
(***************************************************************************)
MaxLen == 1

MaxEdits == 1

(***************************************************************************)
(* Python values.                                                          *)
(***************************************************************************)
None == [t |-> "null"]

Str(s) == [t |-> "str", s |-> s]

Num(n) == [t |-> "int", n |-> n]

List(e) == [t |-> "list", e |-> e]

Tuple(e) == [t |-> "tuple", e |-> e]

Dict(k, v) == [t |-> "dict", k |-> k, v |-> v]

Range(seq) == {seq[i] : i \in 1..Len(seq)}

HasKey(d, key) == \E i \in 1..Len(d.k) : d.k[i] = key

\* d[key]
Get(d, key) == d.v[CHOOSE i \in 1..Len(d.k) : d.k[i] = key]

\* d.get(key, default)
GetOr(d, key, default) == IF HasKey(d, key) THEN Get(d, key) ELSE default

\* The truth value Python gives a value in `if v:`.
Truthy(v) ==
    CASE v.t = "null" -> FALSE
      [] v.t = "str" -> v.s # ""
      [] v.t = "int" -> v.n # 0
      [] v.t = "dict" -> Len(v.k) > 0
      [] OTHER -> Len(v.e) > 0

RECURSIVE PyEq(_, _)
\* Python's ==: a list never equals a tuple, dicts compare without order.
PyEq(a, b) ==
    IF a.t # b.t THEN FALSE
    ELSE CASE a.t = "null" -> TRUE
           [] a.t = "str" -> a.s = b.s
           [] a.t = "int" -> a.n = b.n
           [] a.t = "dict" ->
                /\ Range(a.k) = Range(b.k)
                /\ \A key \in Range(a.k) : PyEq(Get(a, key), Get(b, key))
           [] OTHER ->
                /\ Len(a.e) = Len(b.e)
                /\ \A i \in 1..Len(a.e) : PyEq(a.e[i], b.e[i])

(***************************************************************************)
(* Strings.                                                                *)
(***************************************************************************)
\* The characters of the model's alphabet in code-point order.
CodeChars == "\n !\"#$%&'()*+,-./0123456789:;<=>?@ABCDEFGHIJKLMNOPQRSTUVWXYZ[\\]^_abcdefghijklmnopqrstuvwxyz{|}~"

CharAt(s, i) == SubSeq(s, i, i)

Code(c) == CHOOSE i \in 1..Len(CodeChars) : CharAt(CodeChars, i) = c

\* The least element of a non-empty set of integers.
Min(S) == CHOOSE x \in S : \A y \in S : x <= y

\* Python's a < b on str: lexicographic on code points.
StrLess(a, b) ==
    LET n == IF Len(a) <= Len(b) THEN Len(a) ELSE Len(b)
        diffs == {i \in 1..n : CharAt(a, i) # CharAt(b, i)}
    IN  IF diffs = {} THEN Len(a) < Len(b)
        ELSE Code(CharAt(a, Min(diffs))) < Code(CharAt(b, Min(diffs)))

\* s.startswith(prefix)
StartsWith(s, prefix) ==
    /\ Len(s) >= Len(prefix)
    /\ SubSeq(s, 1, Len(prefix)) = prefix

\* sub in s
Contains(s, sub) ==
    \E i \in 1..(Len(s) - Len(sub) + 1) : SubSeq(s, i, i + Len(sub) - 1) = sub

RECURSIVE Sorted(_)
\* sorted(keys, key=str) of a set of strings.
Sorted(S) ==
    IF S = {} THEN <<>>
    ELSE LET least == CHOOSE x \in S : \A y \in S \ {x} : StrLess(x, y)
         IN  <<least>> \o Sorted(S \ {least})

RECURSIVE Join(_, _)
\* sep.join(parts)
Join(sep, parts) ==
    IF parts = <<>> THEN ""
    ELSE IF Len(parts) = 1 THEN parts[1]
    ELSE parts[1] \o sep \o Join(sep, Tail(parts))

JsonEscapeChar(c) ==
    CASE c = "\"" -> "\\\""
      [] c = "\\" -> "\\\\"
      [] c = "\n" -> "\\n"
      [] OTHER -> c

RECURSIVE JsonEscape(_)
\* The body of a JSON string literal, as json.dumps writes it (the string is
\* split in halves to keep the evaluation shallow).
JsonEscape(s) ==
    IF Len(s) = 0 THEN ""
    ELSE IF Len(s) = 1 THEN JsonEscapeChar(s)
    ELSE JsonEscape(SubSeq(s, 1, Len(s) \div 2))
         \o JsonEscape(SubSeq(s, Len(s) \div 2 + 1, Len(s)))

RECURSIVE Dumps(_, _, _, _)
\* json.dumps(v, sort_keys=sort_keys, separators=(item_sep, key_sep)).
Dumps(v, sort_keys, item_sep, key_sep) ==
    CASE v.t = "null" -> "null"
      [] v.t = "str" -> "\"" \o JsonEscape(v.s) \o "\""
      [] v.t = "int" -> ToString(v.n)
      [] v.t = "dict" ->
           LET keys == IF sort_keys THEN Sorted(Range(v.k)) ELSE v.k
               item(i) == "\"" \o JsonEscape(keys[i]) \o "\"" \o key_sep
                          \o Dumps(Get(v, keys[i]), sort_keys, item_sep, key_sep)
           IN  "{" \o Join(item_sep, [i \in 1..Len(keys) |-> item(i)]) \o "}"
      [] OTHER ->
           "[" \o Join(item_sep, [i \in 1..Len(v.e) |->
                                    Dumps(v.e[i], sort_keys, item_sep, key_sep)])
               \o "]"

(***************************************************************************)
(* The structural differ.                                                  *)
(***************************************************************************)
\* Every pair of documents counted as changed.
diff_changed_Always(prev, curr) == TRUE

\* diff_changed: the serialized views differ.
diff_changed(prev, curr) ==
    Dumps(prev, TRUE, ", ", ": ") # Dumps(curr, TRUE, ", ", ": ")

\* The tuple (path, before, after) that _first_diff returns.
Diff(path, before, after) ==
    [t |-> "diff", path |-> path, before |-> before, after |-> after]

\* SkipsKey with the marker keys skipped at every depth.
SkipsKey_AnyDepth(path, key) == StartsWith(key, "__")

\* SkipsKey with no key skipped.
SkipsKey_Never(path, key) == FALSE

\* The test at the head of the loop over a root dict's keys.
SkipsKey(path, key) == path = "" /\ StartsWith(key, "__")

RECURSIVE _first_diff(_, _, _), DictDiff(_, _, _, _), ListDiff(_, _, _, _)
\* The loop over the sorted union of keys, from the keys still to visit.
DictDiff(prev, curr, path, keys) ==
    IF keys = <<>> THEN None
    ELSE LET key == Head(keys)
             new_path == IF path # "" THEN path \o "." \o key ELSE key
         IN  IF SkipsKey(path, key)
                THEN DictDiff(prev, curr, path, Tail(keys))
             ELSE IF ~HasKey(prev, key)
                THEN Diff(new_path, None, Get(curr, key))
             ELSE IF ~HasKey(curr, key)
                THEN Diff(new_path, Get(prev, key), None)
             ELSE LET diff == _first_diff(Get(prev, key), Get(curr, key), new_path)
                  IN  IF diff # None THEN diff
                      ELSE DictDiff(prev, curr, path, Tail(keys))

\* ListDiff with the one-sided test comparing a 1-based position to the length.
ListDiff_OffByOne(prev, curr, path, idx) ==
    LET max_len == IF Len(prev.e) >= Len(curr.e) THEN Len(prev.e) ELSE Len(curr.e)
        new_path == path \o "[" \o ToString(idx) \o "]"
    IN  IF idx >= max_len THEN None
        ELSE IF idx + 1 >= Len(prev.e) THEN Diff(new_path, None, curr.e[idx + 1])
        ELSE IF idx >= Len(curr.e) THEN Diff(new_path, prev.e[idx + 1], None)
        ELSE LET diff == _first_diff(prev.e[idx + 1], curr.e[idx + 1], new_path)
             IN  IF diff # None THEN diff
                 ELSE ListDiff(prev, curr, path, idx + 1)

\* The loop over range(max_len), from index idx (0-based).
ListDiff(prev, curr, path, idx) ==
    LET max_len == IF Len(prev.e) >= Len(curr.e) THEN Len(prev.e) ELSE Len(curr.e)
        new_path == path \o "[" \o ToString(idx) \o "]"
    IN  IF idx >= max_len THEN None
        ELSE IF idx >= Len(prev.e) THEN Diff(new_path, None, curr.e[idx + 1])
        ELSE IF idx >= Len(curr.e) THEN Diff(new_path, prev.e[idx + 1], None)
        ELSE LET diff == _first_diff(prev.e[idx + 1], curr.e[idx + 1], new_path)
             IN  IF diff # None THEN diff
                 ELSE ListDiff(prev, curr, path, idx + 1)

_first_diff(prev, curr, path) ==
    IF prev.t = "dict" /\ curr.t = "dict"
       THEN DictDiff(prev, curr, path, Sorted(Range(prev.k) \cup Range(curr.k)))
    ELSE IF prev.t = "list" /\ curr.t = "list"
       THEN ListDiff(prev, curr, path, 0)
    ELSE IF ~PyEq(prev, curr)
       THEN Diff(IF path # "" THEN path ELSE "root", prev, curr)
    ELSE None

(***************************************************************************)
(* Paths into a document: a sequence of steps, each a dict key or a        *)
(* 0-based list index.                                                     *)
(***************************************************************************)
KeyStep(key) == [key |-> key]

IdxStep(idx) == [idx |-> idx]

IsKeyStep(step) == "key" \in DOMAIN step

IsScalar(v) == v.t \in {"null", "str", "int"}

RECURSIVE LeafPaths(_)
\* The paths of the scalar leaves of a document.
LeafPaths(v) ==
    IF IsScalar(v) THEN {<<>>}
    ELSE IF v.t = "dict"
       THEN UNION {{<<KeyStep(v.k[i])>> \o p : p \in LeafPaths(v.v[i])} :
                   i \in 1..Len(v.k)}
    ELSE UNION {{<<IdxStep(i - 1)>> \o p : p \in LeafPaths(v.e[i])} :
                i \in 1..Len(v.e)}

\* The child of a container one step down.
Child(v, step) == IF IsKeyStep(step) THEN Get(v, step.key) ELSE v.e[step.idx + 1]

RECURSIVE At(_, _)
\* The value at a path.
At(v, p) == IF p = <<>> THEN v ELSE At(Child(v, Head(p)), Tail(p))

RECURSIVE Replace(_, _, _)
\* The document with the value at path p replaced by x.
Replace(v, p, x) ==
    IF p = <<>> THEN x
    ELSE LET step == Head(p)
             sub == Replace(Child(v, step), Tail(p), x)
         IN  IF IsKeyStep(step)
                THEN LET i == CHOOSE j \in 1..Len(v.k) : v.k[j] = step.key
                     IN  [v EXCEPT !.v[i] = sub]
             ELSE [v EXCEPT !.e[step.idx + 1] = sub]

RECURSIVE PathText(_)
\* A path in the notation of the differ: a.b[0].c
PathText(p) ==
    IF p = <<>> THEN ""
    ELSE LET init == PathText(SubSeq(p, 1, Len(p) - 1))
             step == p[Len(p)]
         IN  IF IsKeyStep(step)
                THEN (IF init = "" THEN step.key ELSE init \o "." \o step.key)
             ELSE init \o "[" \o ToString(step.idx) \o "]"

(***************************************************************************)
(* The documents the differ is run on.                                     *)
(***************************************************************************)
Scalars == {None, Str("a")}

EditValues == {None, Str("a"), Str("b")}

SeqsUpTo(S, n) == UNION {[1..m -> S] : m \in 0..n}

\* The subsequence of seq at the positions in mask.
RECURSIVE Pick(_, _, _)
Pick(seq, mask, i) ==
    IF i > Len(seq) THEN <<>>
    ELSE (IF i \in mask THEN <<seq[i]>> ELSE <<>>) \o Pick(seq, mask, i + 1)

\* Every dict whose keys are some of `keys`, in that order, with values in V.
DictsOver(keys, V) ==
    UNION {{Dict(Pick(keys, mask, 1), vals) : vals \in [1..Cardinality(mask) -> V]} :
           mask \in SUBSET (1..Len(keys))}

Lists == {List(e) : e \in SeqsUpTo(Scalars, MaxLen)}

Tuples == {Tuple(e) : e \in [1..2 -> Scalars]}

NestedDicts == DictsOver(<<"k", "__m">>, Scalars)

Level1 == Scalars \cup Lists \cup Tuples \cup NestedDicts

\* Root dicts hold their keys in an insertion order that is not the sorted one.
RootDicts ==
    {Dict(b.k \o a.k \o m.k, b.v \o a.v \o m.v) :
        b \in DictsOver(<<"b">>, Scalars \cup Lists \cup Tuples),
        a \in DictsOver(<<"a">>, Scalars \cup NestedDicts \cup Lists),
        m \in DictsOver(<<"__m">>, {Str("x")})}

Documents == RootDicts \cup Level1

(***************************************************************************)
(* The differ as a state machine: a document is captured twice, the second *)
(* capture is edited at some leaves, and the two detectors are run.        *)
(***************************************************************************)
InitDiffer ==
    /\ pc = "input"
    /\ \E d \in Documents : args = [prev |-> d, curr |-> d, edits |-> <<>>]
    /\ ret = None

EditLeaf ==
    /\ pc = "input"
    /\ Len(args.edits) < MaxEdits
    /\ \E p \in LeafPaths(args.curr), x \in EditValues :
          /\ At(args.curr, p) # x
          /\ args' = [args EXCEPT !.curr = Replace(args.curr, p, x),
                                  !.edits = Append(@, p)]
    /\ UNCHANGED <<pc, ret>>

Call_first_diff ==
    /\ pc = "input"
    /\ pc' = "_first_diff"
    /\ ret' = _first_diff(args.prev, args.curr, "")
    /\ UNCHANGED args

Call_diff_changed ==
    /\ pc = "input"
    /\ pc' = "diff_changed"
    /\ ret' = [t |-> "bool", b |-> diff_changed(args.prev, args.curr)]
    /\ UNCHANGED args

NextDiffer == EditLeaf \/ Call_first_diff \/ Call_diff_changed

SpecDiffer == InitDiffer /\ [][NextDiffer]_vars

(***************************************************************************)
(* Claims about the differ (checked under SpecDiffer).                     *)
(***************************************************************************)
\* The name the differ gives a path: "root" for the empty path.
PathName(p) == IF p = <<>> THEN "root" ELSE PathText(p)

\* C1: a document compared with itself: _first_diff returns None and
\* diff_changed returns False.
C1_Reflexive ==
    /\ (pc = "_first_diff" /\ args.curr = args.prev) => ret = None
    /\ (pc = "diff_changed" /\ args.curr = args.prev) => ret.b = FALSE

\* A dict with a list and a nested dict below it was compared with itself.
C1_Witness ==
    /\ pc = "_first_diff"
    /\ args.curr = args.prev
    /\ args.prev.t = "dict"
    /\ \E i, j \in 1..Len(args.prev.k) :
          /\ args.prev.v[i].t = "list" /\ Len(args.prev.v[i].e) > 0
          /\ args.prev.v[j].t = "dict" /\ Len(args.prev.v[j].k) > 0
    /\ ret = None

\* The two captures differ at exactly one leaf path.
OneLeafEdit == pc = "_first_diff" /\ Len(args.edits) = 1

\* C2 as stated: two documents that differ only at the leaf path p give
\* exactly p with the leaf values of both sides.
C2_AsStated ==
    OneLeafEdit =>
        LET p == args.edits[1]
        IN  ret = Diff(PathName(p), At(args.prev, p), At(args.curr, p))

\* The path is below a root-level dict key that begins with "__".
UnderRootMarker(p) ==
    /\ args.prev.t = "dict"
    /\ p # <<>>
    /\ StartsWith(p[1].key, "__")

\* The shortest prefix of p that ends at a tuple, or p when there is none.
ReportedPath(p) ==
    LET cuts == {n \in 0..Len(p) : At(args.prev, SubSeq(p, 1, n)).t = "tuple"}
    IN  IF cuts = {} THEN p
        ELSE SubSeq(p, 1, CHOOSE n \in cuts : \A m \in cuts : n <= m)

\* C2 (amended): two documents that differ only at the leaf path p give None
\* when p is below a root-level key beginning with "__"; otherwise the path
\* of the leaf with both leaf values, or, for a leaf inside a tuple, the path
\* of the outermost enclosing tuple with both whole tuples.
C2_OneLeaf ==
    OneLeafEdit =>
        LET p == args.edits[1]
            q == ReportedPath(p)
        IN  IF UnderRootMarker(p) THEN ret = None
            ELSE ret = Diff(PathName(q), At(args.prev, q), At(args.curr, q))

\* A leaf two levels down, outside tuples and marker keys, was edited and reported.
C2_Witness ==
    /\ OneLeafEdit
    /\ Len(args.edits[1]) = 2
    /\ ~UnderRootMarker(args.edits[1])
    /\ ReportedPath(args.edits[1]) = args.edits[1]
    /\ ret # None
    /\ ret.path = PathText(args.edits[1])
    /\ ret.before = At(args.prev, args.edits[1])
    /\ ret.after = At(args.curr, args.edits[1])
    /\ ret.before # ret.after

(***************************************************************************)
(* The entity matcher.                                                     *)
(***************************************************************************)
IsSpace(c) == c \in {" ", "\n"}

\* The number of whitespace characters s begins with.
LeadingSpaces(s) ==
    CHOOSE n \in 0..Len(s) :
        /\ \A i \in 1..n : IsSpace(CharAt(s, i))
        /\ n = Len(s) \/ ~IsSpace(CharAt(s, n + 1))

\* The number of whitespace characters s ends with.
TrailingSpaces(s) ==
    CHOOSE n \in 0..Len(s) :
        /\ \A i \in 1..n : IsSpace(CharAt(s, Len(s) + 1 - i))
        /\ n = Len(s) \/ ~IsSpace(CharAt(s, Len(s) - n))

\* s.strip()
Strip(s) ==
    IF LeadingSpaces(s) = Len(s) THEN ""
    ELSE SubSeq(s, LeadingSpaces(s) + 1, Len(s) - TrailingSpaces(s))

\* d[key] = val: a new key goes last, a known key keeps its place.
DictSet(d, key, val) ==
    IF HasKey(d, key)
       THEN LET i == CHOOSE j \in 1..Len(d.k) : d.k[j] = key
            IN  [d EXCEPT !.v[i] = val]
    ELSE [d EXCEPT !.k = Append(@, key), !.v = Append(@, val)]

EmptyDict == Dict(<<>>, <<>>)

\* The label of entry idx (0-based) before disambiguation.
NominalLabel(entry, label_key, fallback_prefix, idx) ==
    LET raw_label == GetOr(entry, label_key, None)
        label == IF raw_label.t = "str" THEN Strip(raw_label.s) ELSE ""
    IN  IF label = "" THEN fallback_prefix \o " " \o ToString(idx + 1) ELSE label

\* The key an entry is stored under, given how often its label was seen.
UniqueLabel(label, count) ==
    IF count = 0 THEN label ELSE label \o " #" \o ToString(count + 1)

RECURSIVE LabelLoop(_, _, _, _, _, _)
\* The loop of _build_label_map from entry idx (0-based) on.
LabelLoop(entries, label_key, fallback_prefix, idx, seen_counts, mapping) ==
    IF idx >= Len(entries) THEN mapping
    ELSE LET entry == entries[idx + 1]
             label == NominalLabel(entry, label_key, fallback_prefix, idx)
             count == GetOr(seen_counts, label, Num(0)).n
         IN  LabelLoop(entries, label_key, fallback_prefix, idx + 1,
                       DictSet(seen_counts, label, Num(count + 1)),
                       DictSet(mapping, UniqueLabel(label, count), entry))

_build_label_map(entries, label_key, fallback_prefix) ==
    LabelLoop(entries, label_key, fallback_prefix, 0, EmptyDict, EmptyDict)

\* remaining.pop(idx), idx 0-based.
Pop(seq, idx) == SubSeq(seq, 1, idx) \o SubSeq(seq, idx + 2, Len(seq))

RECURSIVE NewRowsLoop(_, _, _, _)
\* The loop of _detect_new_rows over curr_rows from position i (1-based) on.
NewRowsLoop(remaining, curr_rows, i, new_rows) ==
    IF i > Len(curr_rows) THEN new_rows
    ELSE LET row == curr_rows[i]
             hits == {j \in 1..Len(remaining) : PyEq(remaining[j], row)}
         IN  IF hits # {}
                THEN LET first == CHOOSE j \in hits : \A h \in hits : j <= h
                     IN  NewRowsLoop(Pop(remaining, first - 1), curr_rows, i + 1,
                                     new_rows)
             ELSE NewRowsLoop(remaining, curr_rows, i + 1, Append(new_rows, row))

\* _detect_new_rows with the two row lists taken in the wrong roles.
_detect_new_rows_Swapped(prev_rows, curr_rows) ==
    NewRowsLoop(curr_rows, prev_rows, 1, <<>>)

RECURSIVE KeepUnseen(_, _, _)
\* _detect_new_rows without consuming the matched previous row.
KeepUnseen(prev_rows, curr_rows, i) ==
    IF i > Len(curr_rows) THEN <<>>
    ELSE (IF \E j \in 1..Len(prev_rows) : PyEq(prev_rows[j], curr_rows[i])
             THEN <<>> ELSE <<curr_rows[i]>>)
         \o KeepUnseen(prev_rows, curr_rows, i + 1)

_detect_new_rows_NoPop(prev_rows, curr_rows) == KeepUnseen(prev_rows, curr_rows, 1)

_detect_new_rows(prev_rows, curr_rows) == NewRowsLoop(prev_rows, curr_rows, 1, <<>>)

(***************************************************************************)
(* The matcher as state machines: a list of entities is collected and      *)
(* labelled; two row lists are collected and compared.                     *)
(***************************************************************************)
MaxEntries == 3

MaxRows == 3

\* Tiles with a missing, null, blank, padded, repeated or suffixed label.
EntryChoices ==
    {Dict(<<"value">>, <<Str("1")>>)}
    \cup {Dict(<<"label", "value">>, <<label, Str("1")>>) :
            label \in {None, Str(""), Str(" X"), Str("X"), Str("X #2"), Str("Tile 2")}}

InitLabelMap ==
    /\ pc = "input"
    /\ args = [entries |-> <<>>]
    /\ ret = None

AddEntry ==
    /\ pc = "input"
    /\ Len(args.entries) < MaxEntries
    /\ \E entry \in EntryChoices : args' = [entries |-> Append(args.entries, entry)]
    /\ UNCHANGED <<pc, ret>>

Call_build_label_map ==
    /\ pc = "input"
    /\ pc' = "_build_label_map"
    /\ ret' = _build_label_map(args.entries, "label", "Tile")
    /\ UNCHANGED args

NextLabelMap == AddEntry \/ Call_build_label_map

SpecLabelMap == InitLabelMap /\ [][NextLabelMap]_vars

\* Rows as the parser makes them (tuples, dicts) and as the store returns them
\* (lists); the two dicts are equal in Python and differ in key order.
RowChoices ==
    { Tuple(<<Str("k"), Str("v")>>),
      List(<<Str("k"), Str("v")>>),
      Dict(<<"A", "B">>, <<Str("1"), Str("2")>>),
      Dict(<<"B", "A">>, <<Str("2"), Str("1")>>) }

InitNewRows ==
    /\ pc = "input"
    /\ args = [prev_rows |-> <<>>, curr_rows |-> <<>>]
    /\ ret = None

AddPrevRow ==
    /\ pc = "input"
    /\ Len(args.prev_rows) < MaxRows
    /\ \E row \in RowChoices : args' = [args EXCEPT !.prev_rows = Append(@, row)]
    /\ UNCHANGED <<pc, ret>>

AddCurrRow ==
    /\ pc = "input"
    /\ Len(args.curr_rows) < MaxRows
    /\ \E row \in RowChoices : args' = [args EXCEPT !.curr_rows = Append(@, row)]
    /\ UNCHANGED <<pc, ret>>

Call_detect_new_rows ==
    /\ pc = "input"
    /\ pc' = "_detect_new_rows"
    /\ ret' = List(_detect_new_rows(args.prev_rows, args.curr_rows))
    /\ UNCHANGED args

NextNewRows == AddPrevRow \/ AddCurrRow \/ Call_detect_new_rows

SpecNewRows == InitNewRows /\ [][NextNewRows]_vars

(***************************************************************************)
(* Claims about the matcher (C3 under SpecLabelMap, C4 and C5 under        *)
(* SpecNewRows).                                                           *)
(***************************************************************************)
\* C3: the label map has exactly one key per input entity.
C3_OneKeyPerEntity ==
    pc = "_build_label_map" => Len(ret.k) = Len(args.entries)

\* C4: _detect_new_rows(rows, rows) is empty, _detect_new_rows([], rows) is
\* rows, and _detect_new_rows(rows, []) is empty.
C4_Boundaries ==
    pc = "_detect_new_rows" =>
        /\ args.prev_rows = args.curr_rows => ret.e = <<>>
        /\ args.prev_rows = <<>> => ret.e = args.curr_rows
        /\ args.curr_rows = <<>> => ret.e = <<>>

\* An empty previous list met a current list of several rows, all reported.
C4_Witness ==
    /\ pc = "_detect_new_rows"
    /\ args.prev_rows = <<>>
    /\ Len(args.curr_rows) >= 2
    /\ ret.e = args.curr_rows

\* How many rows of seq equal row in Python's sense.
CountEq(seq, row) == Cardinality({i \in 1..Len(seq) : PyEq(seq[i], row)})

RECURSIVE IsSubseq(_, _)
\* sub is seq with some rows left out.
IsSubseq(sub, seq) ==
    IF sub = <<>> THEN TRUE
    ELSE IF seq = <<>> THEN FALSE
    ELSE IF Head(sub) = Head(seq) THEN IsSubseq(Tail(sub), Tail(seq))
    ELSE IsSubseq(sub, Tail(seq))

\* C5: a multiset difference: a row value that occurs c times in current and
\* p times in previous is reported max(c - p, 0) times, the reported rows are
\* current rows in their current order, and a reordering reports nothing.
C5_MultisetDifference ==
    pc = "_detect_new_rows" =>
        /\ IsSubseq(ret.e, args.curr_rows)
        /\ \A row \in Range(args.curr_rows) \cup Range(args.prev_rows) :
              LET c == CountEq(args.curr_rows, row)
                  p == CountEq(args.prev_rows, row)
              IN  CountEq(ret.e, row) = IF c > p THEN c - p ELSE 0
        /\ (\A row \in Range(args.curr_rows) \cup Range(args.prev_rows) :
               CountEq(args.curr_rows, row) = CountEq(args.prev_rows, row))
           => ret.e = <<>>

\* A row held once before and three times now was reported twice, the earlier
\* list holding a second row as well.
C5_Witness ==
    /\ pc = "_detect_new_rows"
    /\ \E row \in Range(args.curr_rows) :
          /\ CountEq(args.prev_rows, row) = 1
          /\ CountEq(args.curr_rows, row) = 3
          /\ CountEq(ret.e, row) = 2
    /\ Len(args.prev_rows) >= 2
    /\ Len(ret.e) = 2

(***************************************************************************)
(* Rendering of values.                                                    *)
(***************************************************************************)
UpperChars == "ABCDEFGHIJKLMNOPQRSTUVWXYZ"

LowerChars == "abcdefghijklmnopqrstuvwxyz"

LowerChar(c) ==
    IF \E i \in 1..Len(UpperChars) : CharAt(UpperChars, i) = c
       THEN CharAt(LowerChars, CHOOSE i \in 1..Len(UpperChars) : CharAt(UpperChars, i) = c)
    ELSE c

RECURSIVE Lower(_)
\* s.lower()
Lower(s) ==
    IF Len(s) = 0 THEN ""
    ELSE IF Len(s) = 1 THEN LowerChar(s)
    ELSE Lower(SubSeq(s, 1, Len(s) \div 2)) \o Lower(SubSeq(s, Len(s) \div 2 + 1, Len(s)))

ReprEscapeChar(c, q) ==
    CASE c = q -> "\\" \o q
      [] c = "\\" -> "\\\\"
      [] c = "\n" -> "\\n"
      [] OTHER -> c

RECURSIVE ReprEscape(_, _)
\* The body of repr(s) inside the quote character q.
ReprEscape(s, q) ==
    IF Len(s) = 0 THEN ""
    ELSE IF Len(s) = 1 THEN ReprEscapeChar(s, q)
    ELSE ReprEscape(SubSeq(s, 1, Len(s) \div 2), q)
         \o ReprEscape(SubSeq(s, Len(s) \div 2 + 1, Len(s)), q)

RECURSIVE PyRepr(_)
\* repr(v)
PyRepr(v) ==
    CASE v.t = "null" -> "None"
      [] v.t = "str" ->
           LET q == IF Contains(v.s, "'") /\ ~Contains(v.s, "\"") THEN "\"" ELSE "'"
           IN  q \o ReprEscape(v.s, q) \o q
      [] v.t = "int" -> ToString(v.n)
      [] v.t = "list" ->
           "[" \o Join(", ", [i \in 1..Len(v.e) |-> PyRepr(v.e[i])]) \o "]"
      [] v.t = "tuple" ->
           "(" \o Join(", ", [i \in 1..Len(v.e) |-> PyRepr(v.e[i])])
               \o (IF Len(v.e) = 1 THEN "," ELSE "") \o ")"
      [] OTHER ->
           "{" \o Join(", ", [i \in 1..Len(v.k) |->
                                PyRepr(Str(v.k[i])) \o ": " \o PyRepr(v.v[i])])
               \o "}"

\* str(v)
PyStr(v) == IF v.t = "str" THEN v.s ELSE PyRepr(v)

\* len(v)
PyLen(v) ==
    CASE v.t = "str" -> Len(v.s)
      [] v.t = "dict" -> Len(v.k)
      [] OTHER -> Len(v.e)

\* a or b
Or(a, b) == IF Truthy(a) THEN a ELSE b

\* v if isinstance(v, list) else []
ListOrEmpty(v) == IF v.t = "list" THEN v.e ELSE <<>>

StringifyDefaultLen == 120

_stringify_value(val, max_len) ==
    LET text == Dumps(val, FALSE, ", ", ": ")
    IN  IF Len(text) > max_len THEN SubSeq(text, 1, max_len - 3) \o "..." ELSE text

_format_value(value) ==
    IF value = None \/ value = Str("") THEN "-"
    ELSE IF value.t \in {"list", "dict"} THEN _stringify_value(value, StringifyDefaultLen)
    ELSE PyStr(value)

(***************************************************************************)
(* Rows of a table.                                                        *)
(***************************************************************************)
\* One item of the header heuristic: the value repeats its key, or is blank
\* under a col* key.
HeaderLike(key, val) ==
    /\ val.t = "str"
    /\ \/ Strip(val.s) = Strip(key)
       \/ StartsWith(Lower(key), "col") /\ Strip(val.s) = ""

_looks_like_header_row(row) ==
    IF row.t # "dict" \/ Len(row.k) = 0 THEN FALSE
    ELSE LET total == Len(row.k)
             matches == Cardinality({i \in 1..total : HeaderLike(row.k[i], row.v[i])})
         IN  10 * matches >= 7 * total

preferred_keys ==
    << "Date de valeur", "Objet", "Mt Facture/", "Re^glement", "Versement",
       "Disponible", "No. de facture", "Mois", "Anne/e" >>

\* The test both loops of _describe_table_row apply to an item.
Describes(key, val) == val.t = "str" /\ val.s # "" /\ val.s # key

RowDescLen == 200

MaxRowItems == 4

RECURSIVE FirstItems(_, _, _)
\* The fallback loop of _describe_table_row over row.items(), from item i on.
FirstItems(row, i, items) ==
    IF i > Len(row.k) THEN items
    ELSE LET more == IF Describes(row.k[i], row.v[i])
                        THEN Append(items, row.k[i] \o ": " \o row.v[i].s)
                     ELSE items
         IN  IF Len(more) >= MaxRowItems THEN more ELSE FirstItems(row, i + 1, more)

RECURSIVE SelectIdx(_, _)
\* The positions 1..n that are in keep, in increasing order.
SelectIdx(n, keep) ==
    IF n = 0 THEN <<>>
    ELSE SelectIdx(n - 1, keep) \o (IF n \in keep THEN <<n>> ELSE <<>>)

_describe_table_row(row, headers) ==
    IF row.t = "dict"
       THEN LET found == SelectIdx(Len(preferred_keys),
                            {i \in 1..Len(preferred_keys) :
                                /\ HasKey(row, preferred_keys[i])
                                /\ Describes(preferred_keys[i], Get(row, preferred_keys[i]))})
                named == [j \in 1..Len(found) |->
                            preferred_keys[found[j]] \o ": "
                            \o Get(row, preferred_keys[found[j]]).s]
                items == IF named # <<>> THEN named ELSE FirstItems(row, 1, <<>>)
            IN  IF items # <<>> THEN Join(", ", items)
                ELSE _stringify_value(row, RowDescLen)
    ELSE IF row.t \in {"list", "tuple"}
       THEN LET kept == SelectIdx(Len(row.e),
                           {i \in 1..Len(row.e) : row.e[i] # Str("") /\ row.e[i] # None})
                compact == [j \in 1..Len(kept) |-> PyStr(row.e[kept[j]])]
            IN  IF compact # <<>> THEN Join(" | ", compact)
                ELSE _stringify_value(row, RowDescLen)
    ELSE _stringify_value(row, RowDescLen)

(***************************************************************************)
(* The counter-delta and table-shape summarizers.                          *)
(***************************************************************************)
\* The labels of the previous side first, then the current-only ones.
UnionKeys_PrevFirst(prev_map, curr_map) ==
    LET only == SelectIdx(Len(curr_map.k),
                    {i \in 1..Len(curr_map.k) : ~HasKey(prev_map, curr_map.k[i])})
    IN  prev_map.k \o [j \in 1..Len(only) |-> curr_map.k[only[j]]]

\* list(curr_map.keys()) + [k for k in prev_map if k not in curr_map]
UnionKeys(prev_map, curr_map) ==
    LET only == SelectIdx(Len(prev_map.k),
                    {i \in 1..Len(prev_map.k) : ~HasKey(curr_map, prev_map.k[i])})
    IN  curr_map.k \o [j \in 1..Len(only) |-> prev_map.k[only[j]]]

RECURSIVE Concat(_)
\* The lists of a list of lists, one after the other.
Concat(lists) == IF lists = <<>> THEN <<>> ELSE Head(lists) \o Concat(Tail(lists))

\* The lines _summarize_tile_changes adds for one label.
TileLines(key, prev_tile, curr_tile) ==
    IF Truthy(prev_tile) /\ Truthy(curr_tile)
       THEN LET pv == GetOr(prev_tile, "value", None)
                cv == GetOr(curr_tile, "value", None)
                pp == GetOr(prev_tile, "percent", None)
                cp == GetOr(curr_tile, "percent", None)
            IN  (IF ~PyEq(pv, cv)
                    THEN <<"[ti] " \o key \o " : " \o _format_value(pv) \o " -> "
                           \o _format_value(cv)>>
                 ELSE <<>>)
                \o (IF ~PyEq(pp, cp)
                       THEN <<"[up] " \o key \o " % : " \o _format_value(pp) \o " -> "
                              \o _format_value(cp)>>
                    ELSE <<>>)
    ELSE IF Truthy(curr_tile)
       THEN <<"[nw] " \o key \o " : - -> "
              \o _format_value(GetOr(curr_tile, "value", None))>>
    ELSE IF Truthy(prev_tile)
       THEN <<"[x] " \o key \o " : "
              \o _format_value(GetOr(prev_tile, "value", None)) \o " -> -">>
    ELSE <<>>

_summarize_tile_changes(prev_tiles, curr_tiles) ==
    LET compared(prev_map, curr_map) ==
            LET each(keys) ==
                    Concat([i \in 1..Len(keys) |->
                              TileLines(keys[i], GetOr(prev_map, keys[i], None),
                                        GetOr(curr_map, keys[i], None))])
            IN  each(UnionKeys(prev_map, curr_map))
    IN  compared(_build_label_map(prev_tiles, "label", "Tile"),
                 _build_label_map(curr_tiles, "label", "Tile"))

TableHeadsLen == 80

\* The lines of the new rows of a ledger table.
NewRowLines(heading, prev_table, curr_table) ==
    LET prev_rows_list == ListOrEmpty(GetOr(prev_table, "rows", List(<<>>)))
        curr_rows_list == ListOrEmpty(GetOr(curr_table, "rows", List(<<>>)))
        new_rows == _detect_new_rows(prev_rows_list, curr_rows_list)
        line(row) ==
            IF _looks_like_header_row(row) THEN <<>>
            ELSE LET desc == _describe_table_row(row, GetOr(curr_table, "headers", None))
                 IN  IF desc # "" THEN <<"[+] " \o heading \o " : " \o desc>> ELSE <<>>
    IN  Concat([i \in 1..Len(new_rows) |-> line(new_rows[i])])

\* TableLines with a row-count line for a growing table only.
TableLines_GrowthOnly(key, prev_table, curr_table) ==
    IF Truthy(prev_table) /\ Truthy(curr_table)
       THEN LET prev_rows == PyLen(GetOr(prev_table, "rows", List(<<>>)))
                curr_rows == PyLen(GetOr(curr_table, "rows", List(<<>>)))
                heading == PyStr(Or(GetOr(curr_table, "heading", None),
                                    Or(GetOr(prev_table, "heading", None), Str(""))))
            IN  (IF prev_rows < curr_rows
                    THEN <<"[pg] " \o key \o " : " \o ToString(prev_rows) \o " lignes -> "
                           \o ToString(curr_rows) \o " lignes">>
                 ELSE <<>>)
                \o (IF curr_rows > prev_rows /\ Contains(Lower(heading), "releve/")
                       THEN NewRowLines(heading, prev_table, curr_table)
                    ELSE <<>>)
    ELSE IF Truthy(curr_table)
       THEN <<"[pg] " \o key \o " : 0 lignes -> "
              \o ToString(PyLen(GetOr(curr_table, "rows", List(<<>>)))) \o " lignes">>
    ELSE IF Truthy(prev_table)
       THEN <<"[pg] " \o key \o " : "
              \o ToString(PyLen(GetOr(prev_table, "rows", List(<<>>)))) \o " lignes -> 0 lignes">>
    ELSE <<>>

\* The lines _summarize_table_changes adds for one label.
TableLines(key, prev_table, curr_table) ==
    IF Truthy(prev_table) /\ Truthy(curr_table)
       THEN LET prev_rows == PyLen(GetOr(prev_table, "rows", List(<<>>)))
                curr_rows == PyLen(GetOr(curr_table, "rows", List(<<>>)))
                heading == PyStr(Or(GetOr(curr_table, "heading", None),
                                    Or(GetOr(prev_table, "heading", None), Str(""))))
                heading_lc == Lower(heading)
            IN  (IF prev_rows # curr_rows
                    THEN <<"[pg] " \o key \o " : " \o ToString(prev_rows) \o " lignes -> "
                           \o ToString(curr_rows) \o " lignes">>
                 ELSE <<>>)
                \o (IF curr_rows > prev_rows /\ Contains(heading_lc, "releve/")
                       THEN NewRowLines(heading, prev_table, curr_table)
                    ELSE <<>>)
    ELSE IF Truthy(curr_table)
       THEN <<"[pg] " \o key \o " : 0 lignes -> "
              \o ToString(PyLen(GetOr(curr_table, "rows", List(<<>>)))) \o " lignes">>
    ELSE IF Truthy(prev_table)
       THEN <<"[pg] " \o key \o " : "
              \o ToString(PyLen(GetOr(prev_table, "rows", List(<<>>)))) \o " lignes -> 0 lignes">>
    ELSE <<>>

_summarize_table_changes(prev_tables, curr_tables) ==
    LET prev_heads == List([i \in 1..Len(prev_tables) |-> GetOr(prev_tables[i], "heading", None)])
        curr_heads == List([i \in 1..Len(curr_tables) |-> GetOr(curr_tables[i], "heading", None)])
        compared(prev_map, curr_map) ==
            LET each(keys) ==
                    Concat([i \in 1..Len(keys) |->
                              TableLines(keys[i], GetOr(prev_map, keys[i], None),
                                         GetOr(curr_map, keys[i], None))])
            IN  each(UnionKeys(prev_map, curr_map))
    IN  (IF ~PyEq(prev_heads, curr_heads)
            THEN LET shown == [i \in 1..2 |->
                                 _stringify_value(<<prev_heads, curr_heads>>[i], TableHeadsLen)]
                 IN  <<"[table] Tableaux : " \o shown[1] \o " -> " \o shown[2]>>
         ELSE <<>>)
        \o compared(_build_label_map(prev_tables, "heading", "Table"),
                    _build_label_map(curr_tables, "heading", "Table"))

(***************************************************************************)
(* The summary composer.                                                   *)
(***************************************************************************)
Digits == "0123456789"

IsDigit(c) == \E i \in 1..Len(Digits) : CharAt(Digits, i) = c

\* The number of digits s begins with.
LeadingDigits(s) ==
    CHOOSE n \in 0..Len(s) :
        /\ \A i \in 1..n : IsDigit(CharAt(s, i))
        /\ n = Len(s) \/ ~IsDigit(CharAt(s, n + 1))

RECURSIVE ParseInt(_)
\* int(s) of a string of digits.
ParseInt(s) ==
    IF s = "" THEN 0
    ELSE 10 * ParseInt(SubSeq(s, 1, Len(s) - 1))
         + ((CHOOSE i \in 1..Len(Digits) : CharAt(Digits, i) = CharAt(s, Len(s))) - 1)

\* s[n:]
From(s, n) == SubSeq(s, n + 1, Len(s))

NoMatch == [ok |-> FALSE]

\* _TABLE_PATH_RE.fullmatch(path): tables[<digits>].rows[<digits>] and then
\* nothing or a dot and one or more characters other than a dot.
TablePathMatch(path) ==
    IF ~StartsWith(path, "tables[") THEN NoMatch
    ELSE LET r1 == From(path, Len("tables["))
             n1 == LeadingDigits(r1)
             r2 == From(r1, n1)
         IN  IF n1 = 0 \/ ~StartsWith(r2, "].rows[") THEN NoMatch
             ELSE LET r3 == From(r2, Len("].rows["))
                      n2 == LeadingDigits(r3)
                      r4 == From(r3, n2)
                  IN  IF n2 = 0 \/ ~StartsWith(r4, "]") THEN NoMatch
                      ELSE LET r5 == From(r4, 1)
                               hit(col) == [ok |-> TRUE,
                                            table_idx |-> SubSeq(r1, 1, n1),
                                            row_idx |-> SubSeq(r3, 1, n2),
                                            col_key |-> col]
                           IN  IF r5 = "" THEN hit(None)
                               ELSE IF /\ StartsWith(r5, ".")
                                       /\ Len(r5) >= 2
                                       /\ ~Contains(From(r5, 1), ".")
                                  THEN hit(Str(From(r5, 1)))
                               ELSE NoMatch

\* The label _humanize_diff_path takes from a dict row.
DictRowLabel(table, row) ==
    LET headers == ListOrEmpty(GetOr(table, "headers", List(<<>>)))
        label_val == IF headers # <<>> /\ headers[1].t = "str"
                        THEN GetOr(row, headers[1].s, None)
                     ELSE None
        by_header == IF /\ headers # <<>>
                        /\ label_val.t = "str"
                        /\ label_val.s # ""
                        /\ label_val # headers[1]
                        THEN label_val
                     ELSE None
        usable == {i \in 1..Len(row.v) :
                      /\ row.v[i].t = "str"
                      /\ row.v[i].s # ""
                      /\ ~StartsWith(Lower(row.v[i].s), "col")}
    IN  IF Truthy(by_header) THEN by_header
        ELSE IF usable # {} THEN row.v[Min(usable)]
        ELSE None

_humanize_diff_path(path, prev, curr) ==
    LET tables == Or(GetOr(curr, "tables", None),
                     Or(GetOr(prev, "tables", None), List(<<>>)))
        part(v) == IF Truthy(v) THEN <<PyStr(v)>> ELSE <<>>
        joined(parts) == IF parts # <<>> THEN Str(Join(" --- ", parts)) ELSE None
        label_of(table, row) ==
            IF row.t = "dict" THEN DictRowLabel(table, row)
            ELSE IF /\ row.t \in {"list", "tuple"}
                    /\ Len(row.e) > 0
                    /\ row.e[1].t = "str"
                    /\ row.e[1].s # ""
               THEN row.e[1]
            ELSE None
        in_table(table, r_idx, col_key) ==
            IF table.t # "dict" THEN None
            ELSE
            LET heading == GetOr(table, "heading", None)
                rows == ListOrEmpty(GetOr(table, "rows", List(<<>>)))
            IN  joined(part(heading)
                       \o part(label_of(table, IF r_idx < Len(rows) THEN rows[r_idx + 1]
                                                ELSE None))
                       \o (IF /\ Truthy(col_key)
                              /\ col_key.s \notin {"col1", "col0"}
                              THEN <<col_key.s>> ELSE <<>>))
        matched(match) ==
            IF ~match.ok THEN None
            ELSE IF tables.t # "list" \/ ParseInt(match.table_idx) >= Len(tables.e) THEN None
            ELSE in_table(tables.e[ParseInt(match.table_idx) + 1],
                          ParseInt(match.row_idx), match.col_key)
    IN  matched(TablePathMatch(path))

MaxSummaryLines == 7

FirstCapture == "Premie^re capture enregistre/e."

\* lines[:n]
Take(lines, n) == SubSeq(lines, 1, IF Len(lines) < n THEN Len(lines) ELSE n)

\* SummaryLines with the generic line after the other lines.
SummaryLines_Appended(prev, curr) ==
    LET domain ==
            _summarize_tile_changes(GetOr(prev, "tiles", List(<<>>)).e,
                                    GetOr(curr, "tiles", List(<<>>)).e)
            \o _summarize_table_changes(GetOr(prev, "tables", List(<<>>)).e,
                                        GetOr(curr, "tables", List(<<>>)).e)
        id_line(prev_id, curr_id) ==
            IF ~PyEq(prev_id, curr_id)
               THEN LET shown == [i \in 1..2 |-> _format_value(<<prev_id, curr_id>>[i])]
                    IN  <<"[us] user_id : " \o shown[1] \o " -> " \o shown[2]>>
            ELSE <<>>
        diff_line(diff) ==
            LET shown == [i \in 1..2 |-> _format_value(<<diff.before, diff.after>>[i])]
            IN  "D> " \o Or(_humanize_diff_path(diff.path, prev, curr), Str(diff.path)).s
                \o " : " \o shown[1] \o " -> " \o shown[2]
        inserted(line, lines) == IF line \notin Range(lines) THEN lines \o <<line>> ELSE lines
        with_diff(lines, diff) ==
            IF diff # None THEN inserted(diff_line(diff), lines)
            ELSE IF lines = <<>> THEN <<"Changements de/tecte/s.">>
            ELSE lines
    IN  with_diff(domain \o id_line(GetOr(prev, "user_id", None), GetOr(curr, "user_id", None)),
                  _first_diff(prev, curr, ""))

\* The lines of summarize_changes before the cut to seven, prev not None.
SummaryLines(prev, curr) ==
    LET domain ==
            _summarize_tile_changes(GetOr(prev, "tiles", List(<<>>)).e,
                                    GetOr(curr, "tiles", List(<<>>)).e)
            \o _summarize_table_changes(GetOr(prev, "tables", List(<<>>)).e,
                                        GetOr(curr, "tables", List(<<>>)).e)
        id_line(prev_id, curr_id) ==
            IF ~PyEq(prev_id, curr_id)
               THEN LET shown == [i \in 1..2 |-> _format_value(<<prev_id, curr_id>>[i])]
                    IN  <<"[us] user_id : " \o shown[1] \o " -> " \o shown[2]>>
            ELSE <<>>
        diff_line(diff) ==
            LET shown == [i \in 1..2 |-> _format_value(<<diff.before, diff.after>>[i])]
            IN  "D> " \o Or(_humanize_diff_path(diff.path, prev, curr), Str(diff.path)).s
                \o " : " \o shown[1] \o " -> " \o shown[2]
        inserted(line, lines) == IF line \notin Range(lines) THEN <<line>> \o lines ELSE lines
        with_diff(lines, diff) ==
            IF diff # None THEN inserted(diff_line(diff), lines)
            ELSE IF lines = <<>> THEN <<"Changements de/tecte/s.">>
            ELSE lines
    IN  with_diff(domain \o id_line(GetOr(prev, "user_id", None), GetOr(curr, "user_id", None)),
                  _first_diff(prev, curr, ""))

\* summarize_changes with the first-capture sentence kept for empty captures only.
summarize_changes_NonEmpty(prev, curr) ==
    IF prev = None /\ GetOr(curr, "tiles", List(<<>>)).e = <<>> THEN FirstCapture
    ELSE IF prev = None THEN "Changements de/tecte/s."
    ELSE Join("\n", Take(SummaryLines(prev, curr), MaxSummaryLines))

summarize_changes(prev, curr) ==
    IF prev = None THEN FirstCapture
    ELSE Join("\n", Take(SummaryLines(prev, curr), MaxSummaryLines))

(***************************************************************************)
(* The summarizers of the notification: cash tiles, annual summary,        *)
(* ledger rows and expense files.                                          *)
(***************************************************************************)
RECURSIVE Ascending(_)
\* The elements of a finite set of integers, smallest first.
Ascending(S) == IF S = {} THEN <<>> ELSE <<Min(S)>> \o Ascending(S \ {Min(S)})

\* s.split(): the maximal runs of characters that are not whitespace.
Words(s) ==
    LET starts == {i \in 1..Len(s) :
                      /\ ~IsSpace(CharAt(s, i))
                      /\ i = 1 \/ IsSpace(CharAt(s, i - 1))}
        stops == {j \in 1..Len(s) :
                     /\ ~IsSpace(CharAt(s, j))
                     /\ j = Len(s) \/ IsSpace(CharAt(s, j + 1))}
        stop(i) == Min({j \in stops : j >= i})
        order == Ascending(starts)
    IN  [n \in 1..Len(order) |-> SubSeq(s, order[n], stop(order[n]))]

\* The alphabet of the model has no no-break space, so replace() changes nothing.
_normalize_amount(text) == IF ~Truthy(text) THEN "-" ELSE Join(" ", Words(PyStr(text)))

_get_tile_value(tiles, label) ==
    LET hits == {i \in 1..Len(tiles) : GetOr(tiles[i], "label", None) = Str(label)}
    IN  IF hits = {} THEN None ELSE GetOr(tiles[Min(hits)], "value", None)

_summarize_cash(prev_tiles, curr_tiles) ==
    LET part(label, before, after) ==
            IF ~PyEq(before, after) /\ after # None
               THEN LET shown == [i \in 1..2 |-> _normalize_amount(<<before, after>>[i])]
                    IN  <<label \o " : " \o shown[1] \o " -> " \o shown[2]>>
            ELSE <<>>
        line(parts) ==
            IF parts = <<>> THEN None
            ELSE Str("[ca] " \o Join(" (", parts) \o (IF Len(parts) = 1 THEN "" ELSE ")"))
    IN  line(Concat([i \in 1..2 |->
                part(<<"Disponible", "Dispo+Prev">>[i],
                     _get_tile_value(prev_tiles, <<"Disponible", "Dispo + Dispo prev">>[i]),
                     _get_tile_value(curr_tiles, <<"Disponible", "Dispo + Dispo prev">>[i]))]))

_table_by_heading(tables, needle) ==
    LET hits == {i \in 1..Len(tables) :
                    Contains(Lower(PyStr(Or(GetOr(tables[i], "heading", None), Str("")))),
                             Lower(needle))}
    IN  IF hits = {} THEN None ELSE tables[Min(hits)]

\* tables and _table_by_heading(tables, needle)
FindTable(tables, needle) ==
    IF tables = <<>> THEN None ELSE _table_by_heading(tables, needle)

\* table.get("rows", []) if isinstance(table, dict) else []
RowsOf(table) == IF table.t = "dict" THEN GetOr(table, "rows", List(<<>>)) ELSE List(<<>>)

\* The first value of a dict that is a non-empty string and passes `keep`, or `default`.
FirstString(row, skip_key, default) ==
    LET hits == {i \in 1..Len(row.v) :
                    /\ row.v[i].t = "str"
                    /\ row.v[i].s # ""
                    /\ Str(row.k[i]) # skip_key}
    IN  IF hits = {} THEN default ELSE row.v[Min(hits)]

\* A key that no row has: next() without a key to leave out.
NoKey == [t |-> "nokey"]

RECURSIVE RowMapsLoop(_, _, _, _, _)
\* The loop of _row_maps over the rows from position i on.  The cells of a
\* table are strings, and so are the labels.
RowMapsLoop(rows, headers, i, labels, values) ==
    IF i > Len(rows) THEN [labels |-> labels, values |-> values]
    ELSE LET row == rows[i]
             key_col == IF headers # <<>> THEN headers[1] ELSE None
             val_col == IF Len(headers) > 1 THEN headers[2] ELSE None
         IN  IF row.t # "dict" THEN RowMapsLoop(rows, headers, i + 1, labels, values)
             ELSE LET label == IF /\ Truthy(key_col)
                                  /\ HasKey(row, key_col.s)
                                  /\ Truthy(Get(row, key_col.s))
                                  /\ Get(row, key_col.s) # key_col
                                  THEN Get(row, key_col.s)
                               ELSE FirstString(row, NoKey, None)
                      value == IF Truthy(val_col) /\ HasKey(row, val_col.s)
                                  THEN Get(row, val_col.s)
                               ELSE IF Len(headers) >= 2
                                  THEN GetOr(row, headers[2].s, Str(""))
                               ELSE FirstString(row, key_col, Str(""))
                  IN  IF ~Truthy(label)
                         THEN RowMapsLoop(rows, headers, i + 1, labels, values)
                      ELSE RowMapsLoop(rows, headers, i + 1,
                                       DictSet(labels, label.s, row),
                                       DictSet(values, label.s, value))

_row_maps(table) ==
    RowMapsLoop(ListOrEmpty(GetOr(table, "rows", List(<<>>))),
                ListOrEmpty(GetOr(table, "headers", List(<<>>))),
                1, EmptyDict, EmptyDict)

MaxSynthChanges == 3

\* The entry of `changes` for one label of the current table, if any.
SynthChange(label, after, prev_values) ==
    LET before == GetOr(prev_values, label, None)
    IN  IF before = None THEN <<label \o " : +" \o _normalize_amount(after)>>
        ELSE IF ~PyEq(before, after)
           THEN <<label \o " : " \o _normalize_amount(before) \o " -> "
                  \o _normalize_amount(after)>>
        ELSE <<>>

_summarize_synthese(prev_tables, curr_tables) ==
    LET piece(text) == IF text # "" THEN <<text>> ELSE <<>>
        labelled(payload) ==
            IF payload # "" THEN Str("[ti] Synthe^se annuelle : " \o payload) ELSE None
        changes_of(prev_values, curr_values) ==
            Concat([i \in 1..Len(curr_values.k) |->
                      SynthChange(curr_values.k[i], curr_values.v[i], prev_values)])
        summed(delta_rows, changes) ==
            LET abs == IF delta_rows < 0 THEN 0 - delta_rows ELSE delta_rows
                row_part == IF delta_rows = 0 THEN ""
                            ELSE (IF delta_rows > 0 THEN "+" ELSE "") \o ToString(delta_rows)
                                 \o " ligne" \o (IF abs # 1 THEN "s" ELSE "")
            IN  IF changes = <<>> /\ delta_rows = 0 THEN None
                ELSE labelled(Join(" --- ",
                        piece(row_part)
                        \o piece(Join("; ", Take(changes, MaxSynthChanges)))))
        between(prev_table, curr_table) ==
            IF ~Truthy(curr_table) THEN None
            ELSE summed(PyLen(RowsOf(curr_table)) - PyLen(RowsOf(prev_table)),
                        changes_of(_row_maps(Or(prev_table, EmptyDict)).values,
                                   _row_maps(curr_table).values))
    IN  between(FindTable(prev_tables, "Synthe^se annuelle"),
                FindTable(curr_tables, "Synthe^se annuelle"))

TruncateLen == 80

\* _truncate inside _format_releve_row
_truncate(text, max_len) ==
    LET cut(stripped) == IF Len(stripped) <= max_len THEN stripped
                         ELSE SubSeq(stripped, 1, max_len - 3) \o "..."
    IN  cut(Strip(text))

_format_releve_row(row) ==
    LET date == Or(GetOr(row, "Date de valeur", None), Or(GetOr(row, "Date", None), Str("")))
        activ == Or(GetOr(row, "No.Activite/", None),
                    Or(GetOr(row, "REF. ACTIVITE", None), Str("")))
        versement == Or(GetOr(row, "Versement", None), Str(""))
        dispo == Or(GetOr(row, "Disponible", None), Str(""))
        detail(label, value) == IF Truthy(value) THEN <<label \o PyStr(value)>> ELSE <<>>
        with_objet(objet) ==
            IF Truthy(objet)
               THEN (IF Truthy(date) THEN Str(PyStr(date) \o " --- " \o objet.s) ELSE objet)
            ELSE date
        with_activ(head) ==
            IF Truthy(activ)
               THEN (IF Truthy(head) THEN Str(PyStr(head) \o " (" \o PyStr(activ) \o ")")
                     ELSE activ)
            ELSE head
        line(head, parts) ==
            IF parts # <<>> THEN "(o) " \o PyStr(head) \o " : " \o Join("; ", parts)
            ELSE IF Truthy(head) THEN "(o) " \o PyStr(head)
            ELSE "(o) Ligne ajoute/e"
    IN  line(with_activ(with_objet(
                IF Truthy(GetOr(row, "Objet", None))
                   THEN Str(_truncate(PyStr(GetOr(row, "Objet", Str(""))), TruncateLen))
                ELSE Str(""))),
             detail("versement ", versement) \o detail("disp. ", dispo))

_summarize_releve(prev_tables, curr_tables) ==
    LET prev_table == FindTable(prev_tables, "Releve/")
        curr_table == FindTable(curr_tables, "Releve/")
    IN  IF ~Truthy(curr_table) THEN <<>>
        ELSE
        LET prev_rows == RowsOf(prev_table)
            curr_rows == RowsOf(curr_table)
            new_rows == _detect_new_rows(ListOrEmpty(prev_rows), ListOrEmpty(curr_rows))
            pretty(row) == IF row.t = "dict" /\ ~_looks_like_header_row(row)
                              THEN <<_format_releve_row(row)>> ELSE <<>>
        IN  (IF PyLen(curr_rows) - PyLen(prev_rows) # 0
                THEN <<"[up] " \o PyStr(GetOr(curr_table, "heading", Str("Releve/")))
                       \o " : " \o ToString(PyLen(prev_rows)) \o " lignes -> "
                       \o ToString(PyLen(curr_rows)) \o " lignes">>
             ELSE <<>>)
            \o Concat([i \in 1..Len(new_rows) |-> pretty(new_rows[i])])

\* The line _summarize_note_frais writes for one new row.
NoteFraisLine(row) ==
    LET name == Or(GetOr(row, "NOM DU FICHIER", None),
                   Or(GetOr(row, "col1", None), Str("fichier")))
        mois == GetOr(row, "MOIS", None)
        annee == GetOr(row, "ANNEE", None)
        ref == Or(GetOr(row, "REF. ACTIVITE", None), GetOr(row, "No.Activite/", None))
        meta_parts == (IF Truthy(mois) THEN <<mois.s>> ELSE <<>>)
                      \o (IF Truthy(annee) THEN <<annee.s>> ELSE <<>>)
                      \o (IF Truthy(GetOr(row, "TYPE", None)) THEN <<Get(row, "TYPE").s>>
                          ELSE <<>>)
                      \o (IF Truthy(ref) THEN <<"ref " \o PyStr(ref)>> ELSE <<>>)
        meta == Join(", ", meta_parts)
    IN  IF meta # ""
           THEN "[nf] Note de frais : nouveau fichier " \o PyStr(name) \o " (" \o meta \o ")"
        ELSE "[nf] Note de frais : nouveau fichier " \o PyStr(name)

_summarize_note_frais(prev_tables, curr_tables) ==
    LET prev_table == FindTable(prev_tables, "Note de frais")
        curr_table == FindTable(curr_tables, "Note de frais")
    IN  IF ~Truthy(curr_table) THEN <<>>
        ELSE
        LET new_rows == _detect_new_rows(ListOrEmpty(RowsOf(prev_table)),
                                         ListOrEmpty(RowsOf(curr_table)))
            line(row) == IF row.t # "dict" \/ _looks_like_header_row(row) THEN <<>>
                         ELSE <<NoteFraisLine(row)>>
        IN  Concat([i \in 1..Len(new_rows) |-> line(new_rows[i])])

(***************************************************************************)
(* The notification message.                                               *)
(***************************************************************************)
\* s.splitlines(), the line break being "\n".
SplitLines(s) ==
    LET breaks == Ascending({i \in 1..Len(s) : CharAt(s, i) = "\n"})
        n == Len(breaks)
        start(j) == IF j = 1 THEN 1 ELSE breaks[j - 1] + 1
        last == IF n = 0 THEN s ELSE From(s, breaks[n])
    IN  [j \in 1..n |-> SubSeq(s, start(j), breaks[j] - 1)]
        \o (IF last # "" THEN <<last>> ELSE <<>>)

\* seq without the elements at the positions in drop.
Without(seq, drop) ==
    LET kept == SelectIdx(Len(seq), (1..Len(seq)) \ drop)
    IN  [j \in 1..Len(kept) |-> seq[kept[j]]]

\* _strip_simulated_line keeping the lines that merely mention the marker.
_strip_simulated_line_Prefix(lines) ==
    Without(lines, {i \in 1..Len(lines) : StartsWith(lines[i], "__simulated_change")})

_strip_simulated_line(lines) ==
    Without(lines, {i \in 1..Len(lines) : Contains(lines[i], "__simulated_change")})

\* [line.strip() for line in summary.splitlines() if line.strip()]
SummaryFallback(summary) ==
    LET lines == SplitLines(summary)
        stripped == [i \in 1..Len(lines) |-> Strip(lines[i])]
    IN  Without(stripped, {i \in 1..Len(stripped) : stripped[i] = ""})

\* The lines of the four summarizers of the notification.
DomainLines(prev, curr) ==
    LET prev_tiles == GetOr(prev, "tiles", List(<<>>)).e
        curr_tiles == GetOr(curr, "tiles", List(<<>>)).e
        prev_tables == GetOr(prev, "tables", List(<<>>)).e
        curr_tables == GetOr(curr, "tables", List(<<>>)).e
        appended(line) == IF Truthy(line) THEN <<line.s>> ELSE <<>>
    IN  appended(_summarize_cash(prev_tiles, curr_tiles))
        \o appended(_summarize_synthese(prev_tables, curr_tables))
        \o _summarize_releve(prev_tables, curr_tables)
        \o _summarize_note_frais(prev_tables, curr_tables)

GenericChange == "Changement de/tecte/ (de/tails indisponibles)."

\* The lines before stripping: those of the summarizers, or, when there are
\* none or a snapshot is missing, the stripped non-blank lines of summary.
RawLines(summary, prev, curr) ==
    LET or_summary(lines) == IF lines # <<>> THEN lines ELSE SummaryFallback(summary)
    IN  or_summary(IF prev # None /\ curr # None THEN DomainLines(prev, curr) ELSE <<>>)

\* The lines of the message before the archive line is appended.
ContentLines(summary, prev, curr) ==
    LET or_generic(lines) == IF lines = <<>> THEN <<GenericChange>> ELSE lines
    IN  or_generic(_strip_simulated_line(RawLines(summary, prev, curr)))

\* Path(path).name: what follows the last "/".
BaseName(path) ==
    LET slashes == {i \in 1..Len(path) : CharAt(path, i) = "/"}
    IN  IF slashes = {} THEN path
        ELSE From(path, CHOOSE i \in slashes : \A j \in slashes : j <= i)

\* The lines that are joined into the message.
NotificationLines(summary, snap_path, prev, curr) ==
    ContentLines(summary, prev, curr)
    \o (IF snap_path # None THEN <<"[ar] " \o BaseName(snap_path.s)>> ELSE <<>>)

MessageLimit == 1024

\* A truncation that drops trailing whole lines while a whole-line prefix fits.
Truncate_WholeLines(message) ==
    LET fits == {i \in 1..Len(message) : CharAt(message, i) = "\n" /\ i - 1 <= MessageLimit}
    IN  IF Len(message) <= MessageLimit THEN message
        ELSE IF fits = {} THEN SubSeq(message, 1, MessageLimit)
        ELSE SubSeq(message, 1, (CHOOSE i \in fits : \A j \in fits : j <= i) - 1)

\* message[:MessageLimit]
Truncate(message) ==
    SubSeq(message, 1, IF Len(message) < MessageLimit THEN Len(message) ELSE MessageLimit)

\* The limit applied to the content lines only, the archive line appended after.
build_notification_message_LimitContent(summary, snap_path, prev, curr) ==
    Truncate(Join("\n", ContentLines(summary, prev, curr)))
    \o (IF snap_path # None THEN "\n[ar] " \o BaseName(snap_path.s) ELSE "")

build_notification_message(summary, snap_path, prev, curr) ==
    Truncate(Join("\n", NotificationLines(summary, snap_path, prev, curr)))

(***************************************************************************)
(* The notification of a run.  main composes the summary of the previous   *)
(* and the new snapshot and builds the message from the summary, the       *)
(* archive path and both snapshots; the tests call the two functions on    *)
(* their own as well, with a summary of their choice and snapshots that    *)
(* may be missing.                                                         *)
(***************************************************************************)
MaxLedgerRows == 3

MaxFileRows == 2

LongLen == 600

RECURSIVE Repeat(_, _)
Repeat(s, n) ==
    IF n = 0 THEN ""
    ELSE IF n = 1 THEN s
    ELSE Repeat(s, n \div 2) \o Repeat(s, n - n \div 2)

LongText == Repeat("9", LongLen)

\* A tile as parse_tile_counters builds it.
Tile(label, value) == Dict(<<"label", "value">>, <<Str(label), Str(value)>>)

TileChoices ==
    { <<>>,
      <<Tile("Disponible", "1 E")>>,
      <<Tile("Disponible", "2 E"), Tile("Dispo + Dispo prev", "3 E")>>,
      <<Tile("Disponible", LongText), Tile("Dispo + Dispo prev", LongText)>> }

\* A row of a table with headers: a map from each header to the cell under it.
Row(headers, cells) == Dict(headers, [i \in 1..Len(cells) |-> Str(cells[i])])

\* A table as parse_two_col_tables builds it; the header line of the table
\* is the first of its rows.
Table(heading, headers, rows) ==
    Dict(<<"heading", "headers", "rows">>,
         <<Str(heading),
           List([i \in 1..Len(headers) |-> Str(headers[i])]),
           List(<<Row(headers, headers)>> \o rows)>>)

SynthHeaders == <<"Poste", "Montant">>

Synth(amounts) ==
    Table("Synthe^se annuelle", SynthHeaders,
          [i \in 1..Len(amounts) |-> Row(SynthHeaders, <<"P" \o ToString(i), amounts[i]>>)])

SynthChoices == { <<>>, <<Synth(<<"11", "2">>)>> }

LedgerHeaders == <<"Date de valeur", "Objet", "Versement", "Disponible">>

LedgerRow(i) ==
    Row(LedgerHeaders,
        <<"0" \o ToString(i) \o "/01", "objet " \o ToString(i),
          ToString(i) \o "0", "1" \o ToString(i)>>)

Ledger(n) == Table("Releve/ de compte", LedgerHeaders, [i \in 1..n |-> LedgerRow(i)])

LedgerChoices == { <<>> } \cup { <<Ledger(n)>> : n \in 0..MaxLedgerRows }

FileHeaders == <<"NOM DU FICHIER", "MOIS", "ANNEE">>

FileRow(i) == Row(FileHeaders, <<"f" \o ToString(i) \o ".pdf", "0" \o ToString(i), "2024">>)

Files(n) == Table("Note de frais", FileHeaders, [i \in 1..n |-> FileRow(i)])

FileChoices == { <<>> } \cup { <<Files(n)>> : n \in 0..MaxFileRows }

\* The document main assembles, with the marker of --simulate-change or not.
Snapshot(tiles, tables, simulated) ==
    Dict(<<"user_id", "tiles", "tables">>
            \o (IF simulated THEN <<"__simulated_change">> ELSE <<>>),
         <<Str("7"), List(tiles), List(tables)>>
            \o (IF simulated THEN <<Str("2024-01-01T00:00:00")>> ELSE <<>>))

CurrentSnapshots ==
    { Snapshot(t, s \o l \o f, FALSE) :
        t \in TileChoices, s \in SynthChoices, l \in LedgerChoices, f \in FileChoices }
    \cup { Snapshot(<<>>, l, TRUE) : l \in LedgerChoices }

\* What load_last_snapshot returns: nothing, or an earlier document.
PreviousSnapshots ==
    { None,
      Snapshot(<<>>, <<>>, FALSE),
      Snapshot(<<Tile("Disponible", "1 E")>>, <<Synth(<<"10">>)>> \o <<Ledger(1)>>, FALSE) }

\* What save_snapshot returns, or no archive.
SnapPaths == { None, Str("snapshots/portad-dashboard-20240101-000000.json.gz") }

\* Summaries handed to the message builder directly.
SummaryChoices ==
    { "", "   \n", "  A -> B  \n\nC -> D",
      "D> __simulated_change : - -> now",
      "a\nD> __simulated_change : - -> now\n b",
      "__simulated_change\nx",
      LongText \o "\n" \o LongText }

DirectPairs ==
    { <<None, None>>,
      <<Snapshot(<<>>, <<>>, FALSE), None>>,
      <<Snapshot(<<>>, <<>>, FALSE), Snapshot(<<>>, <<>>, TRUE)>>,
      <<Snapshot(<<>>, <<>>, FALSE), Snapshot(<<Tile("Disponible", "1 E")>>, <<>>, FALSE)>> }

InitNotify ==
    /\ pc = "input"
    /\ ret = None
    /\ \/ \E previous \in PreviousSnapshots, data \in CurrentSnapshots, snap_path \in SnapPaths :
             args = [previous |-> previous, data |-> data, summary |-> "",
                     snap_path |-> snap_path, composed |-> FALSE]
       \/ \E pair \in DirectPairs, summary \in SummaryChoices, snap_path \in SnapPaths :
             args = [previous |-> pair[1], data |-> pair[2], summary |-> summary,
                     snap_path |-> snap_path, composed |-> FALSE]

\* summary = summarize_changes(previous, data)
Call_summarize_changes ==
    /\ pc = "input"
    /\ args.data # None
    /\ args' = [args EXCEPT !.summary = summarize_changes(args.previous, args.data),
                            !.composed = TRUE]
    /\ pc' = "summarize_changes"
    /\ UNCHANGED ret

\* message = build_notification_message(summary, snap_path, previous, data)
Call_build_notification_message ==
    /\ pc \in {"input", "summarize_changes"}
    /\ ret' = Str(build_notification_message(args.summary, args.snap_path,
                                             args.previous, args.data))
    /\ pc' = "build_notification_message"
    /\ UNCHANGED args

NextNotify == Call_summarize_changes \/ Call_build_notification_message

SpecNotify == InitNotify /\ [][NextNotify]_vars

(***************************************************************************)
(* Properties of the summary and of the message.                           *)
(***************************************************************************)
Marker == "__simulated_change"

\* The lines that are joined into the message, and the message before the cut.
JoinedLines == NotificationLines(args.summary, args.snap_path, args.previous, args.data)

Joined == Join("\n", JoinedLines)

\* The line build_notification_message appends for the archive.
IsArchiveLine(line) ==
    /\ args.snap_path # None
    /\ line = "[ar] " \o BaseName(args.snap_path.s)

\* C6: when the previous snapshot is absent, summarize_changes returns the
\* fixed first-capture sentence, whatever the current document holds.
C6_FirstCapture ==
    (pc = "summarize_changes" /\ args.previous = None) => args.summary = FirstCapture

\* The summary of a first capture that holds tiles and tables.
C6_Witness ==
    /\ pc = "summarize_changes"
    /\ args.previous = None
    /\ Len(Get(args.data, "tiles").e) = 2
    /\ Len(Get(args.data, "tables").e) = 3
    /\ args.summary = FirstCapture

\* C7: the message built from the summary of summarize_changes for a present
\* previous snapshot has at most 7 lines besides the archive line.
C7_AtMostSevenLines ==
    (pc = "build_notification_message" /\ args.composed /\ args.previous # None)
        => Len(SplitLines(ret.s)) <= MaxSummaryLines + (IF args.snap_path # None THEN 1 ELSE 0)

\* C8: the returned message is at most 1024 characters long, the archive
\* line included.
C8_WithinLimit ==
    pc = "build_notification_message" => Len(ret.s) <= 1024

\* A message with an archive line whose joined lines exceed the limit.
C8_Witness ==
    /\ pc = "build_notification_message"
    /\ args.snap_path # None
    /\ Len(Joined) > 1024
    /\ Len(ret.s) = 1024

\* C9 as stated: when the joined message exceeds 1024 characters and its
\* first line fits, the returned message is a run of complete leading lines
\* of the joined message.
C9_AsStated ==
    (/\ pc = "build_notification_message"
     /\ Len(Joined) > 1024
     /\ Len(JoinedLines[1]) <= 1024)
        => \E k \in 1..Len(JoinedLines) : ret.s = Join("\n", Take(JoinedLines, k))

\* C9: the returned message is the joined message cut after its first 1024
\* characters, and the joined message itself when that is no longer.
C9_CutAtLimit ==
    pc = "build_notification_message"
        => /\ StartsWith(Joined, ret.s)
           /\ Len(ret.s) = IF Len(Joined) <= 1024 THEN Len(Joined) ELSE 1024

\* The joined message exceeds the limit, its first line fits, and the cut
\* falls inside a later line.
C9_Witness ==
    /\ pc = "build_notification_message"
    /\ Len(Joined) > 1024
    /\ Len(JoinedLines[1]) <= 1024
    /\ Len(ret.s) = 1024
    /\ \A k \in 1..Len(JoinedLines) : ret.s # Join("\n", Take(JoinedLines, k))

\* C10: no line of the message other than the archive line contains the
\* marker name, and when every line before stripping contains it the message
\* starts with the generic change sentence.
C10_NoMarkerLine ==
    pc = "build_notification_message"
        => LET lines == SplitLines(ret.s)
               raw == RawLines(args.summary, args.previous, args.data)
           IN  /\ \A i \in 1..Len(lines) :
                     IsArchiveLine(lines[i]) \/ ~Contains(lines[i], Marker)
               /\ (\A i \in 1..Len(raw) : Contains(raw[i], Marker))
                     => lines[1] = GenericChange

\* A line that mentions the marker after other text was dropped and the lines
\* around it were kept.
C10_Witness ==
    /\ pc = "build_notification_message"
    /\ LET lines == SplitLines(ret.s)
           raw == RawLines(args.summary, args.previous, args.data)
       IN  /\ Len(raw) = 3
           /\ Contains(raw[2], Marker)
           /\ ~StartsWith(raw[2], Marker)
           /\ Len(lines) >= 2
           /\ lines[1] = raw[1]
           /\ lines[2] = raw[3]

(***************************************************************************)
(* The snapshot directory.  A directory is the set of the names of its     *)
(* files; the archives are the files the glob of cleanup_old_snapshots     *)
(* matches.                                                                *)
(***************************************************************************)
MaxArchives == 5

MaxRetention == 3

SNAPSHOT_RETENTION == 30

LAST_SNAPSHOT == "last_snapshot.json"

\* s.endswith(suffix)
EndsWith(s, suffix) ==
    /\ Len(s) >= Len(suffix)
    /\ SubSeq(s, Len(s) - Len(suffix) + 1, Len(s)) = suffix

\* The timestamp of the i-th save, in the format %Y%m%d-%H%M%S.
Stamp(i) == "20240101-0000" \o (IF i < 10 THEN "0" ELSE "") \o ToString(i)

\* SNAPSHOT_DIR / f"portad-dashboard-{ts}.json.gz", without the directory.
ArchiveName(ts) == "portad-dashboard-" \o ts \o ".json.gz"

\* The document written at its final path, without a temporary file.
TmpName_InPlace(name) == name

\* path.with_name(path.name + ".tmp")
TmpName(name) == name \o ".tmp"

\* The names glob("portad-dashboard-*.json.gz") matches.
IsArchive(name) ==
    /\ StartsWith(name, "portad-dashboard-")
    /\ EndsWith(name, ".json.gz")
    /\ Len(name) >= Len("portad-dashboard-") + Len(".json.gz")

Archives(files) == {name \in files : IsArchive(name)}

Reverse(seq) == [i \in 1..Len(seq) |-> seq[Len(seq) + 1 - i]]

\* The archives in ascending order: the oldest would be kept.
gz_files_Ascending(files) == Sorted(Archives(files))

\* sorted(SNAPSHOT_DIR.glob("portad-dashboard-*.json.gz"), reverse=True)
gz_files(files) == Reverse(Sorted(Archives(files)))

\* gz_files[retention:]
Doomed(files, retention) ==
    SubSeq(gz_files(files), retention + 1, Len(gz_files(files)))

\* The directories cleanup_old_snapshots is run on.
Directories ==
    { {ArchiveName(Stamp(i)) : i \in stamps} \cup others :
        stamps \in SUBSET (1..MaxArchives),
        others \in SUBSET {LAST_SNAPSHOT, TmpName(ArchiveName(Stamp(1)))} }

InitCleanup ==
    /\ pc = "input"
    /\ ret = None
    /\ \E files \in Directories, retention \in 0..MaxRetention :
          args = [files |-> files, retention |-> retention, before |-> files,
                  old |-> <<>>, failed |-> {}]

\* gz_files = ...; if len(gz_files) <= SNAPSHOT_RETENTION: return
Call_cleanup_old_snapshots ==
    /\ pc = "input"
    /\ IF Len(gz_files(args.files)) <= args.retention
          THEN pc' = "done" /\ UNCHANGED args
       ELSE /\ pc' = "unlink"
            /\ args' = [args EXCEPT !.old = Doomed(args.files, args.retention)]
    /\ UNCHANGED ret

\* old.unlink(), which removes the file or raises; the exception is dropped.
Unlink ==
    /\ pc = "unlink"
    /\ \/ args' = [args EXCEPT !.files = @ \ {Head(args.old)}, !.old = Tail(@)]
       \/ args' = [args EXCEPT !.failed = @ \cup {Head(args.old)}, !.old = Tail(@)]
    /\ pc' = IF Len(args.old) = 1 THEN "done" ELSE "unlink"
    /\ UNCHANGED ret

NextCleanup == Call_cleanup_old_snapshots \/ Unlink

SpecCleanup == InitCleanup /\ [][NextCleanup]_vars

\* The archives with the greatest names, at most n of them.
Newest(files, n) ==
    {name \in Archives(files) :
        Cardinality({other \in Archives(files) : StrLess(name, other)}) < n}

\* C11 as stated: after the pruning exactly min(M, N) archives remain, the
\* ones with the greatest timestamps, and no other file is deleted.
C11_AsStated ==
    pc = "done"
        => /\ Archives(args.files) = Newest(args.before, args.retention)
           /\ Cardinality(Archives(args.files))
                = IF Cardinality(Archives(args.before)) < args.retention
                     THEN Cardinality(Archives(args.before)) ELSE args.retention
           /\ args.files \ Archives(args.files) = args.before \ Archives(args.before)

\* C11: after the pruning the remaining archives are the N with the greatest
\* timestamps and the older ones whose deletion failed; no file appears and
\* no file other than an archive is deleted.  When no deletion fails exactly
\* min(M, N) archives remain, each newer than every deleted one.
C11_NewestKept ==
    pc = "done"
        => /\ Archives(args.files)
                = Newest(args.before, args.retention) \cup args.failed
           /\ args.failed \cap Newest(args.before, args.retention) = {}
           /\ args.files \ Archives(args.files) = args.before \ Archives(args.before)
           /\ args.failed = {}
                => /\ Cardinality(Archives(args.files))
                        = IF Cardinality(Archives(args.before)) < args.retention
                             THEN Cardinality(Archives(args.before)) ELSE args.retention
                   /\ \A kept \in Archives(args.files) :
                         \A gone \in Archives(args.before) \ args.files :
                            StrLess(gone, kept)

\* Five archives and the two other files, a retention of three, and the two
\* oldest archives deleted.
C11_Witness ==
    /\ pc = "done"
    /\ Cardinality(Archives(args.before)) = 5
    /\ args.retention = 3
    /\ args.failed = {}
    /\ args.before \ args.files = {ArchiveName(Stamp(1)), ArchiveName(Stamp(2))}
    /\ ArchiveName(Stamp(2)) = "portad-dashboard-20240101-000002.json.gz"
    /\ LAST_SNAPSHOT \in args.files
    /\ TmpName(ArchiveName(Stamp(1))) \in args.files

(***************************************************************************)
(* The files of the snapshot directory with their contents.  A file holds  *)
(* the document that was serialized into it and how much of the text has   *)
(* been written: json.dump writes the text piece by piece, and only a file *)
(* with all its pieces parses.  A file may also be unreadable.             *)
(***************************************************************************)
Chunks == 2

\* A file that holds `written` pieces of the serialization of data.
Content(data, written) == [data |-> data, written |-> written, readable |-> TRUE]

Unreadable == [data |-> None, written |-> 0, readable |-> FALSE]

\* The file and its content as json.dump leaves them when it has finished.
Complete(data) == Content(data, Chunks)

Exists(fs, name) == name \in DOMAIN fs

\* open(name, "w") and the writes: name holds content, the other files as before.
Put(fs, name, content) ==
    [n \in DOMAIN fs \cup {name} |-> IF n = name THEN content ELSE fs[n]]

\* os.replace(src, dst): dst holds what src held and src is gone.
os_replace(fs, src, dst) ==
    IF src = dst THEN fs
    ELSE [n \in (DOMAIN fs \cup {dst}) \ {src} |-> IF n = dst THEN fs[src] ELSE fs[n]]

\* The files of names that are left of fs.
Restrict(fs, names) == [n \in names |-> fs[n]]

RECURSIVE Loaded(_)
\* What json.load gives for the text json.dump wrote for v: a tuple comes
\* back as a list.
Loaded(v) ==
    CASE v.t \in {"list", "tuple"} -> List([i \in 1..Len(v.e) |-> Loaded(v.e[i])])
      [] v.t = "dict" -> Dict(v.k, [i \in 1..Len(v.v) |-> Loaded(v.v[i])])
      [] OTHER -> v

\* load_last_snapshot with any failure to open or to parse turned into None.
load_last_snapshot_Unchecked(fs) ==
    IF ~Exists(fs, LAST_SNAPSHOT) THEN None
    ELSE Loaded(fs[LAST_SNAPSHOT].data)

load_last_snapshot(fs) ==
    IF ~Exists(fs, LAST_SNAPSHOT) THEN None
    ELSE IF ~fs[LAST_SNAPSHOT].readable \/ fs[LAST_SNAPSHOT].written < Chunks THEN None
    ELSE Loaded(fs[LAST_SNAPSHOT].data)

(***************************************************************************)
(* A run of main from the acquisition of the document to the exit status.  *)
(* The clock of a run is later than the timestamp of every archive: runs   *)
(* follow one another and each lasts longer than the second the archive    *)
(* names resolve.  The process may stop at any step.                       *)
(***************************************************************************)
\* The documents a run fetches; the last holds a two-column row, a tuple.
RunDocuments ==
    { Snapshot(<<Tile("Disponible", "1 E")>>, <<>>, FALSE),
      Snapshot(<<Tile("Disponible", "2 E")>>, <<>>, FALSE),
      Snapshot(<<Tile("Disponible", "1 E")>>, <<>>, TRUE),
      Snapshot(<<>>,
               <<Dict(<<"heading", "headers", "rows">>,
                      <<Str("Solde"), List(<<>>),
                        List(<<Tuple(<<Str("Total"), Str("1 E")>>)>>)>>)>>,
               FALSE) }

\* The timestamp save_snapshot reads from the clock.
Now == Stamp(SNAPSHOT_RETENTION + 1)

\* The archives of earlier runs: none, one, or as many as are retained.
ArchiveSets ==
    { {}, {ArchiveName(Stamp(1))},
      {ArchiveName(Stamp(i)) : i \in 1..SNAPSHOT_RETENTION} }

\* What earlier runs left in LAST_SNAPSHOT: nothing, a document, a document
\* cut short, or a file that cannot be read.
LastStates ==
    { <<>> } \cup { <<Complete(d)>> : d \in RunDocuments }
    \cup { <<Content(Snapshot(<<Tile("Disponible", "1 E")>>, <<>>, FALSE), k)>> :
               k \in 0..(Chunks - 1) }
    \cup { <<Unreadable>> }

\* The directory with the archives of names and last as LAST_SNAPSHOT.
Directory(names, last) ==
    [n \in names \cup (IF last = <<>> THEN {} ELSE {LAST_SNAPSHOT}) |->
        IF n = LAST_SNAPSHOT THEN last[1]
        ELSE Complete(Snapshot(<<>>, <<>>, FALSE))]

InitRun ==
    /\ pc = "main"
    /\ ret = None
    /\ \E names \in ArchiveSets, last \in LastStates, configured \in BOOLEAN :
          args = [fs |-> Directory(names, last), before |-> Directory(names, last),
                  configured |-> configured, data |-> None, previous |-> None,
                  changed |-> FALSE, path |-> "", after |-> "", snap_path |-> None,
                  summary |-> "", sent |-> <<>>, failed |-> {}]

\* Steps 1 to 4 of main with an empty document in place of a failed fetch.
Acquire_Default ==
    /\ pc = "main"
    /\ \/ \E data \in RunDocuments :
             /\ args' = [args EXCEPT !.data = data]
             /\ pc' = "load_last_snapshot"
       \/ /\ args' = [args EXCEPT !.failed = @ \cup {"acquire"},
                                  !.data = Snapshot(<<>>, <<>>, FALSE)]
          /\ pc' = "load_last_snapshot"
    /\ UNCHANGED ret

\* Steps 1 to 4 of main: the document is fetched and parsed, or a step raises.
Acquire ==
    /\ pc = "main"
    /\ \/ \E data \in RunDocuments :
             /\ args' = [args EXCEPT !.data = data]
             /\ pc' = "load_last_snapshot"
       \/ /\ args' = [args EXCEPT !.failed = @ \cup {"acquire"}]
          /\ pc' = "except"
    /\ UNCHANGED ret

\* previous = load_last_snapshot(); changed = ...; and the branch on changed.
Call_load_last_snapshot ==
    /\ pc = "load_last_snapshot"
    /\ LET previous == load_last_snapshot(args.fs)
           changed == previous = None \/ diff_changed(previous, args.data)
           saves == changed \/ previous = None
       IN  /\ args' = [args EXCEPT !.previous = previous,
                                   !.changed = changed,
                                   !.path = IF saves THEN ArchiveName(Now) ELSE "",
                                   !.after = IF changed THEN "cleanup_old_snapshots"
                                             ELSE "print"]
           /\ pc' = IF saves THEN "open" ELSE "print"
    /\ UNCHANGED ret

\* _atomic_dump_json: the temporary file is opened for writing, or open raises.
Open ==
    /\ pc = "open"
    /\ \/ /\ args' = [args EXCEPT !.fs = Put(@, TmpName(args.path), Content(args.data, 0))]
          /\ pc' = "write"
       \/ /\ args' = [args EXCEPT !.failed = @ \cup {"save"}]
          /\ pc' = "except"
    /\ UNCHANGED ret

\* _atomic_dump_json: json.dump writes the next piece, or the write raises.
Write ==
    /\ pc = "write"
    /\ LET tmp == TmpName(args.path)
           written == args.fs[tmp].written + 1
       IN  \/ /\ args' = [args EXCEPT !.fs = Put(@, tmp, Content(args.data, written))]
              /\ pc' = IF written = Chunks THEN "replace" ELSE "write"
           \/ /\ args' = [args EXCEPT !.failed = @ \cup {"save"}]
              /\ pc' = "except"
    /\ UNCHANGED ret

\* Rename with save_snapshot returning after the archive, LAST_SNAPSHOT unwritten.
Rename_ArchiveOnly ==
    /\ pc = "replace"
    /\ \/ /\ args' = [args EXCEPT
                        !.fs = os_replace(@, TmpName(args.path), args.path),
                        !.path = "",
                        !.snap_path = Str(ArchiveName(Now))]
          /\ pc' = args.after
       \/ /\ args' = [args EXCEPT !.failed = @ \cup {"save"}]
          /\ pc' = "except"
    /\ UNCHANGED ret

\* _atomic_dump_json: os.replace(tmp_path, path); save_snapshot goes on with
\* LAST_SNAPSHOT after the archive and returns after LAST_SNAPSHOT.
Rename ==
    /\ pc = "replace"
    /\ \/ /\ args' = [args EXCEPT
                        !.fs = os_replace(@, TmpName(args.path), args.path),
                        !.path = IF args.path = LAST_SNAPSHOT THEN "" ELSE LAST_SNAPSHOT,
                        !.snap_path = IF args.path = LAST_SNAPSHOT THEN Str(ArchiveName(Now))
                                      ELSE @]
          /\ pc' = IF args.path = LAST_SNAPSHOT THEN args.after ELSE "open"
       \/ /\ args' = [args EXCEPT !.failed = @ \cup {"save"}]
          /\ pc' = "except"
    /\ UNCHANGED ret

\* cleanup_old_snapshots() with SNAPSHOT_RETENTION; a deletion may fail.
Cleanup ==
    /\ pc = "cleanup_old_snapshots"
    /\ LET old == Range(Doomed(DOMAIN args.fs, SNAPSHOT_RETENTION))
       IN  \E kept \in SUBSET old :
              args' = [args EXCEPT !.fs = Restrict(@, DOMAIN @ \ (old \ kept)),
                                   !.failed = @ \cup (IF kept = {} THEN {} ELSE {"unlink"})]
    /\ pc' = IF args.previous # None THEN "summarize_changes" ELSE "print"
    /\ UNCHANGED ret

\* summary = summarize_changes(previous, data)
Summarize ==
    /\ pc = "summarize_changes"
    /\ args' = [args EXCEPT !.summary = summarize_changes(args.previous, args.data)]
    /\ pc' = "send_pushover"
    /\ UNCHANGED ret

\* send_pushover letting the error of a post reach main.
Notify_Raises ==
    /\ pc = "send_pushover"
    /\ LET message == build_notification_message(args.summary, args.snap_path,
                                                 args.previous, args.data)
       IN  IF ~args.configured THEN UNCHANGED args /\ pc' = "print"
           ELSE \E outcome \in {"200", "400", "raises"} :
                   /\ args' = [args EXCEPT
                              !.sent = Append(@, [message |-> message, outcome |-> outcome]),
                              !.failed = @ \cup (IF outcome = "200" THEN {} ELSE {"pushover"})]
                   /\ pc' = IF outcome = "raises" THEN "except" ELSE "print"
    /\ UNCHANGED ret

\* build_notification_message and send_pushover, which returns at once
\* without credentials and else posts the message: the post is answered with
\* 200 or another status, or raises.
Notify ==
    /\ pc = "send_pushover"
    /\ LET message == build_notification_message(args.summary, args.snap_path,
                                                 args.previous, args.data)
       IN  IF ~args.configured THEN UNCHANGED args
           ELSE \E outcome \in {"200", "400", "raises"} :
                   args' = [args EXCEPT
                              !.sent = Append(@, [message |-> message, outcome |-> outcome]),
                              !.failed = @ \cup (IF outcome = "200" THEN {} ELSE {"pushover"})]
    /\ pc' = "print"
    /\ UNCHANGED ret

\* print(json.dumps(data, ...)); return 0
Return ==
    /\ pc = "print"
    /\ ret' = Num(0)
    /\ pc' = "exit"
    /\ UNCHANGED args

\* except Exception as exc: notify_error(exc); return 1
Except ==
    /\ pc = "except"
    /\ IF ~args.configured THEN UNCHANGED args
       ELSE \E outcome \in {"200", "400", "raises"} :
               args' = [args EXCEPT
                          !.sent = Append(@, [message |-> "Echec Portad", outcome |-> outcome])]
    /\ ret' = Num(1)
    /\ pc' = "exit"

\* The process stops.
Crash ==
    /\ pc \notin {"exit", "crashed"}
    /\ pc' = "crashed"
    /\ UNCHANGED <<args, ret>>

NextRun ==
    \/ Acquire
    \/ Call_load_last_snapshot
    \/ Open
    \/ Write
    \/ Rename
    \/ Cleanup
    \/ Summarize
    \/ Notify
    \/ Return
    \/ Except
    \/ Crash

SpecRun == InitRun /\ [][NextRun]_vars

(***************************************************************************)
(* Claims about the store over a run.                                      *)
(***************************************************************************)
\* The files at a final path: every file but the temporary ones.
FinalPaths(fs) == { n \in DOMAIN fs : ~EndsWith(n, ".tmp") }

\* C12: whatever step a run has reached, the process stopped or not, every
\* file at a final path (the archive of the run, LAST_SNAPSHOT, the earlier
\* archives) holds what it held before the run or the whole serialization of
\* the fetched document, never a part of it.
C12_FinalPathsWhole ==
    \A n \in FinalPaths(args.fs) :
        \/ n \in DOMAIN args.before /\ args.fs[n] = args.before[n]
        \/ args.data # None /\ args.fs[n] = Complete(args.data)

\* The process stopped between the archive write and the end of the
\* LAST_SNAPSHOT write: the archive is whole, the temporary file of
\* LAST_SNAPSHOT is cut short and LAST_SNAPSHOT is the document of before.
C12_Witness ==
    /\ pc = "crashed"
    /\ Exists(args.fs, ArchiveName(Now))
    /\ args.fs[ArchiveName(Now)] = Complete(args.data)
    /\ Exists(args.fs, TmpName(LAST_SNAPSHOT))
    /\ args.fs[TmpName(LAST_SNAPSHOT)].written < Chunks
    /\ Exists(args.before, LAST_SNAPSHOT)
    /\ args.before[LAST_SNAPSHOT].written = Chunks
    /\ args.fs[LAST_SNAPSHOT] = args.before[LAST_SNAPSHOT]
    /\ args.fs[LAST_SNAPSHOT] # Complete(args.data)

\* LAST_SNAPSHOT exists in fs and cannot be read or parsed.
Corrupt(fs) ==
    /\ Exists(fs, LAST_SNAPSHOT)
    /\ ~fs[LAST_SNAPSHOT].readable \/ fs[LAST_SNAPSHOT].written < Chunks

\* The run is past load_last_snapshot.
PastLoad == args.after # ""

\* C13: load_last_snapshot never raises to main; it returns None when
\* LAST_SNAPSHOT is missing, unreadable or cut short and the stored document
\* otherwise; a run that finds LAST_SNAPSHOT corrupt goes the way of a first
\* run: the document counts as changed, nothing is summarized or sent, and
\* when the save does not fail the run ends with status 0 and the document
\* in LAST_SNAPSHOT and in a new archive.
C13_CorruptIsAbsent ==
    /\ pc = "except" => args.failed \cap {"acquire", "save"} # {}
    /\ PastLoad =>
          /\ args.previous =
                IF ~Exists(args.before, LAST_SNAPSHOT) \/ Corrupt(args.before) THEN None
                ELSE Loaded(args.before[LAST_SNAPSHOT].data)
          /\ Corrupt(args.before) =>
                /\ args.changed
                /\ pc \notin {"summarize_changes", "send_pushover"}
                /\ pc = "exit" /\ "save" \notin args.failed =>
                      /\ ret = Num(0)
                      /\ args.sent = <<>>
                      /\ args.fs[LAST_SNAPSHOT] = Complete(args.data)
                      /\ Exists(args.fs, ArchiveName(Now))
                      /\ args.fs[ArchiveName(Now)] = Complete(args.data)

\* A configured run found LAST_SNAPSHOT cut short and ended with status 0 and
\* the fetched document saved.
C13_Witness ==
    /\ pc = "exit"
    /\ ret = Num(0)
    /\ args.configured
    /\ Exists(args.before, LAST_SNAPSHOT)
    /\ args.before[LAST_SNAPSHOT].written < Chunks
    /\ args.fs[LAST_SNAPSHOT] = Complete(args.data)

\* LAST_SNAPSHOT is not, in fs, what it was before the run.
Overwritten(fs, before) ==
    /\ Exists(fs, LAST_SNAPSHOT)
    /\ ~Exists(before, LAST_SNAPSHOT) \/ fs[LAST_SNAPSHOT] # before[LAST_SNAPSHOT]

\* C18: over a run past load_last_snapshot, LAST_SNAPSHOT is overwritten and
\* the archive of the run created only if there is no previous snapshot or
\* diff_changed finds a change, and then with the fetched document; a run
\* that returns 0 after such a finding has done both; a run whose fetched
\* document is the stored one leaves every file as it was and sends nothing.
C18_UpdatePolicy ==
    PastLoad =>
       LET policy(detected, written, archived) ==
              /\ written \/ archived => detected
              /\ written => /\ args.fs[LAST_SNAPSHOT] = Complete(args.data)
                            /\ archived
              /\ pc = "exit" /\ ret = Num(0) /\ detected => written /\ archived
              /\ ~detected => args.fs = args.before /\ args.sent = <<>>
       IN  /\ policy(args.previous = None \/ diff_changed(args.previous, args.data),
                     Overwritten(args.fs, args.before),
                     Exists(args.fs, ArchiveName(Now)))
           /\ args.previous = Loaded(args.data) =>
                 args.fs = args.before /\ args.sent = <<>>

\* A configured run with all the retained archives fetched the stored
\* document and returned 0.
C18_Witness ==
    /\ pc = "exit"
    /\ ret = Num(0)
    /\ args.configured
    /\ args.previous = Loaded(args.data)
    /\ args.fs = args.before
    /\ Cardinality(Archives(DOMAIN args.fs)) = SNAPSHOT_RETENTION

\* C19: once a step of the acquisition has failed, no document is held,
\* nothing is loaded, compared or saved, every file is as before the run, and
\* the run ends with status 1.
C19_AcquisitionHardStop ==
    "acquire" \in args.failed =>
       /\ args.data = None
       /\ ~PastLoad
       /\ args.fs = args.before
       /\ pc \in {"except", "exit", "crashed"}
       /\ pc = "exit" => ret = Num(1)

\* A configured run with a stored document failed to acquire, reported its
\* failure and returned 1.
C19_Witness ==
    /\ pc = "exit"
    /\ "acquire" \in args.failed
    /\ ret = Num(1)
    /\ Len(args.sent) = 1
    /\ Exists(args.before, LAST_SNAPSHOT)
    /\ args.before[LAST_SNAPSHOT].written = Chunks
    /\ Archives(DOMAIN args.before) # {}

\* C20: send_pushover never raises to main: after a post that raised or was
\* answered with another status than 200 the run goes on to print, the saved
\* document stays in LAST_SNAPSHOT and in its archive, and the run returns
\* 0; without credentials nothing is posted and the run returns 0 as well.
C20_DeliveryNotFatal ==
    /\ "pushover" \in args.failed =>
          /\ pc \in {"print", "exit", "crashed"}
          /\ pc = "exit" => ret = Num(0)
          /\ args.fs[LAST_SNAPSHOT] = Complete(args.data)
          /\ Exists(args.fs, ArchiveName(Now))
          /\ args.fs[ArchiveName(Now)] = Complete(args.data)
    /\ ~args.configured =>
          /\ args.sent = <<>>
          /\ pc = "exit" /\ args.failed \cap {"acquire", "save"} = {} => ret = Num(0)

\* The post of a change notification raised and the run returned 0 with the
\* document saved.
C20_Witness ==
    /\ pc = "exit"
    /\ ret = Num(0)
    /\ Len(args.sent) = 1
    /\ args.sent[1].outcome = "raises"
    /\ args.fs[LAST_SNAPSHOT] = Complete(args.data)
    /\ args.fs[LAST_SNAPSHOT] # args.before[LAST_SNAPSHOT]

(***************************************************************************)
(* The counter-delta summarizer as a state machine: the tiles of a stored  *)
(* document meet the tiles of a fetched one, collected one by one.         *)
(***************************************************************************)
\* A tile with a percentage, as parse_tile_counters builds it.
PercentTile(label, value, percent) ==
    Dict(<<"label", "value", "percent">>, <<Str(label), Str(value), Str(percent)>>)

\* Tiles with the same label and different values, with and without a
\* percentage, with a label that ends like a disambiguated one, without label.
SummaryTiles ==
    { Tile("A", "1"), Tile("A", "2"), PercentTile("A", "1", "50"),
      Tile("A #2", "9"), Tile("", "1") }

\* The tiles of the stored document.
PreviousTiles ==
    { <<>>,
      <<Tile("A", "1")>>,
      <<Tile("A", "1"), Tile("A", "2")>>,
      <<PercentTile("A", "1", "50"), Tile("A #2", "9")>>,
      <<Tile("", "1"), Tile("A", "2"), Tile("A", "1")>> }

InitTiles ==
    /\ pc = "input"
    /\ ret = None
    /\ \E prev_tiles \in PreviousTiles : args = [prev_tiles |-> prev_tiles, curr_tiles |-> <<>>]

AddTile ==
    /\ pc = "input"
    /\ Len(args.curr_tiles) < MaxEntries
    /\ \E tile \in SummaryTiles : args' = [args EXCEPT !.curr_tiles = Append(@, tile)]
    /\ UNCHANGED <<pc, ret>>

Call_summarize_tile_changes ==
    /\ pc = "input"
    /\ pc' = "_summarize_tile_changes"
    /\ ret' = List(_summarize_tile_changes(args.prev_tiles, args.curr_tiles))
    /\ UNCHANGED args

NextTiles == AddTile \/ Call_summarize_tile_changes

SpecTiles == InitTiles /\ [][NextTiles]_vars

\* C14: the lines of _summarize_tile_changes are, label by label over the
\* labels of the current map and then the labels of the previous map that
\* the current map lacks: for a label of both maps one before -> after line
\* for the value if it differs, then one for the percent if it differs, and
\* none if neither does; for a label of the current map only one added line
\* with - as the before; for a label of the previous map only one removed
\* line with - as the after.
C14_TileDeltas ==
    pc = "_summarize_tile_changes" =>
       LET lines(prev_map, curr_map) ==
              LET missing(key) == ~HasKey(curr_map, key)
                  delta(mark, key, field) ==
                      LET before == GetOr(Get(prev_map, key), field, None)
                          after == GetOr(Get(curr_map, key), field, None)
                      IN  IF before = after THEN <<>>
                          ELSE <<mark \o key \o (IF field = "percent" THEN " % : " ELSE " : ")
                                 \o _format_value(before) \o " -> " \o _format_value(after)>>
                  expected(key) ==
                      IF HasKey(prev_map, key) /\ HasKey(curr_map, key)
                         THEN delta("[ti] ", key, "value") \o delta("[up] ", key, "percent")
                      ELSE IF HasKey(curr_map, key)
                         THEN <<"[nw] " \o key \o " : - -> "
                                \o _format_value(Get(Get(curr_map, key), "value"))>>
                      ELSE <<"[x] " \o key \o " : "
                             \o _format_value(Get(Get(prev_map, key), "value")) \o " -> -">>
                  each(keys) == Concat([i \in 1..Len(keys) |-> expected(keys[i])])
              IN  each(curr_map.k \o SelectSeq(prev_map.k, missing))
       IN  ret.e = lines(_build_label_map(args.prev_tiles, "label", "Tile"),
                         _build_label_map(args.curr_tiles, "label", "Tile"))

\* A comparison that yields a value line, a percent line, an added line and a
\* removed line, in that order.
C14_Witness ==
    /\ pc = "_summarize_tile_changes"
    /\ ret.e = << "[ti] A : 1 -> 2", "[up] A % : 50 -> -",
                  "[nw] Tile 2 : - -> 1", "[x] A #2 : 9 -> -" >>

\* The tiles of a list that carry a label, in their order.
Carrying(tiles, label) ==
    LET carries(tile) == Strip(Get(tile, "label").s) = label
    IN  SelectSeq(tiles, carries)

\* C15: for every label and every k >= 2, when the k-th tile carrying the
\* label in the previous list and the k-th tile carrying it in the current
\* list differ in value, the change is reported with their two values under
\* "label #k".
C15_OccurrenceOrder ==
    pc = "_summarize_tile_changes" =>
       \A label \in { Strip(Get(tile, "label").s) : tile \in Range(args.curr_tiles) } \ {""} :
          LET before == Carrying(args.prev_tiles, label)
              after == Carrying(args.curr_tiles, label)
          IN  \A k \in 2..Min({Len(before), Len(after)}) :
                 Get(before[k], "value") # Get(after[k], "value") =>
                    ("[ti] " \o label \o " #" \o ToString(k) \o " : "
                       \o _format_value(Get(before[k], "value")) \o " -> "
                       \o _format_value(Get(after[k], "value"))) \in Range(ret.e)

(***************************************************************************)
(* The table-shape summarizer as a state machine: the tables of a stored   *)
(* document meet the tables of a fetched one, collected one by one.        *)
(***************************************************************************)
\* A table of n two-column rows without headers, as parse_two_col_tables
\* builds it; heading is what _resolve_heading returns.
PlainTable(heading, n) ==
    Dict(<<"heading", "headers", "rows">>,
         <<heading, List(<<>>),
           List([i \in 1..n |-> Tuple(<<Str("k" \o ToString(i)), Str("v")>>)])>>)

\* Tables with the same heading and different row counts, with another
\* heading, without heading, with a heading that ends like a disambiguated one.
SummaryTables ==
    { PlainTable(Str("A"), 1), PlainTable(Str("A"), 2), PlainTable(Str("B"), 2),
      PlainTable(None, 1), PlainTable(Str("A #2"), 3) }

\* The tables of the stored document.
PreviousTables ==
    { <<>>,
      <<PlainTable(Str("A"), 1)>>,
      <<PlainTable(Str("A"), 1), PlainTable(Str("B"), 2)>>,
      <<PlainTable(Str("A"), 1), PlainTable(Str("A"), 2)>>,
      <<PlainTable(None, 1), PlainTable(Str("B"), 2), PlainTable(Str("A"), 2)>> }

InitTables ==
    /\ pc = "input"
    /\ ret = None
    /\ \E prev_tables \in PreviousTables :
          args = [prev_tables |-> prev_tables, curr_tables |-> <<>>]

AddTable ==
    /\ pc = "input"
    /\ Len(args.curr_tables) < MaxEntries
    /\ \E table \in SummaryTables : args' = [args EXCEPT !.curr_tables = Append(@, table)]
    /\ UNCHANGED <<pc, ret>>

Call_summarize_table_changes ==
    /\ pc = "input"
    /\ pc' = "_summarize_table_changes"
    /\ ret' = List(_summarize_table_changes(args.prev_tables, args.curr_tables))
    /\ UNCHANGED args

NextTables == AddTable \/ Call_summarize_table_changes

SpecTables == InitTables /\ [][NextTables]_vars

\* The headings of a list of tables, in their order.
Headings(tables) == [i \in 1..Len(tables) |-> Get(tables[i], "heading")]

\* C16: for every label of both label maps, the lines about the label's row
\* count are the line "N lignes -> M lignes" of the two tables' row counts
\* when these differ and none when they are equal, wherever the tables stand
\* in their lists; and one line about the list of headings is there when the
\* two sequences of headings differ and none when they are equal.
C16_TableShape ==
    pc = "_summarize_table_changes" =>
       LET shape(prev_map, curr_map) ==
              \A key \in Range(prev_map.k) \cap Range(curr_map.k) :
                 LET n == Len(Get(Get(prev_map, key), "rows").e)
                     m == Len(Get(Get(curr_map, key), "rows").e)
                     about == { i \in 1..Len(ret.e) :
                                  StartsWith(ret.e[i], "[pg] " \o key \o " : ") }
                 IN  IF n = m THEN about = {}
                     ELSE /\ Cardinality(about) = 1
                          /\ \A i \in about :
                                ret.e[i] = "[pg] " \o key \o " : " \o ToString(n)
                                           \o " lignes -> " \o ToString(m) \o " lignes"
           listed == { i \in 1..Len(ret.e) : StartsWith(ret.e[i], "[table] Tableaux : ") }
       IN  /\ shape(_build_label_map(args.prev_tables, "heading", "Table"),
                    _build_label_map(args.curr_tables, "heading", "Table"))
           /\ Cardinality(listed) =
                 IF Headings(args.prev_tables) = Headings(args.curr_tables) THEN 0 ELSE 1

\* Two tables changed places and one of them grew: a line about the
\* headings and a line about the row count of the table that grew.
C16_Witness ==
    /\ pc = "_summarize_table_changes"
    /\ Headings(args.prev_tables) = <<Str("A"), Str("B")>>
    /\ Headings(args.curr_tables) = <<Str("B"), Str("A")>>
    /\ ret.e = << "[table] Tableaux : [\"A\", \"B\"] -> [\"B\", \"A\"]",
                  "[pg] A : 1 lignes -> 2 lignes" >>

(***************************************************************************)
(* The generic difference line of summarize_changes (under SpecNotify).    *)
(***************************************************************************)
\* C17: when summarize_changes is given a previous document and _first_diff
\* finds a difference, the lines before the cut to seven are the generic
\* line (humanized label or path, before -> after) followed by the lines of
\* the tile, table and user_id comparisons, or these lines alone if the
\* generic line is already one of them; the generic line is among the lines
\* exactly once, and the summary is the first seven lines joined.
C17_GenericLineOnce ==
    pc = "summarize_changes" /\ args.previous # None =>
       LET placed(diff, lines, domain) ==
              diff # None =>
                 LET line == "D> "
                             \o Or(_humanize_diff_path(diff.path, args.previous, args.data),
                                   Str(diff.path)).s
                             \o " : " \o _format_value(diff.before)
                             \o " -> " \o _format_value(diff.after)
                 IN  /\ lines = IF line \in Range(domain) THEN domain ELSE <<line>> \o domain
                     /\ Cardinality({ i \in 1..Len(lines) : lines[i] = line }) = 1
                     /\ args.summary = Join("\n", Take(lines, MaxSummaryLines))
       IN  placed(_first_diff(args.previous, args.data, ""),
                  SummaryLines(args.previous, args.data),
                  _summarize_tile_changes(Get(args.previous, "tiles").e,
                                          Get(args.data, "tiles").e)
                  \o _summarize_table_changes(Get(args.previous, "tables").e,
                                              Get(args.data, "tables").e)
                  \o (IF Get(args.previous, "user_id") # Get(args.data, "user_id")
                         THEN <<"[us] user_id : " \o _format_value(Get(args.previous, "user_id"))
                                \o " -> " \o _format_value(Get(args.data, "user_id"))>>
                      ELSE <<>>))

\* A summary of a changed tile and changed tables: the generic line first,
\* lines of the tile and table comparisons after it.
C17_Witness ==
    /\ pc = "summarize_changes"
    /\ args.previous # None
    /\ _first_diff(args.previous, args.data, "") # None
    /\ StartsWith(args.summary, "D> ")
    /\ \E i \in 2..Len(SplitLines(args.summary)) : StartsWith(SplitLines(args.summary)[i], "[ti] ")
    /\ \E i \in 2..Len(SplitLines(args.summary)) : StartsWith(SplitLines(args.summary)[i], "[pg] ")

(***************************************************************************)
(* The two detectors on pairs of documents that differ in keys, lengths    *)
(* and kinds as well as in leaves.                                         *)
(***************************************************************************)
\* Root dicts that hold their keys in an order that is not the sorted one:
\* "b" a scalar, a tuple row or a list, "a" a list or a dict with a marker
\* key, "__m" the marker of a simulated change.
PairDocuments ==
    {Dict(b.k \o a.k \o m.k, b.v \o a.v \o m.v) :
        b \in DictsOver(<<"b">>, {Str("a"), Tuple(<<Str("a"), Str("b")>>),
                                  List(<<Str("a"), Str("b")>>)}),
        a \in DictsOver(<<"a">>, {List(<<Str("a")>>), List(<<Str("a"), Str("b")>>),
                                  List(<<Str("b")>>),
                                  Dict(<<"__m">>, <<Str("a")>>),
                                  Dict(<<"__m">>, <<Str("b")>>),
                                  Dict(<<"k", "__m">>, <<Str("a"), Str("a")>>)}),
        m \in DictsOver(<<"__m">>, {Str("x"), Str("y")})}

InitPairs ==
    /\ pc = "input"
    /\ ret = None
    /\ \E prev \in PairDocuments, curr \in PairDocuments : args = [prev |-> prev, curr |-> curr]

NextPairs == Call_first_diff \/ Call_diff_changed

SpecPairs == InitPairs /\ [][NextPairs]_vars

RECURSIVE Divergence(_, _, _)
\* The divergence under the smallest key or index whose two sides are not
\* equal, keys beginning with "__" left out at the root.
Divergence(prev, curr, path) ==
    IF prev.t = "dict" /\ curr.t = "dict"
       THEN LET keys == { k \in Range(prev.k) \cup Range(curr.k) :
                            ~(path = "" /\ StartsWith(k, "__")) }
                differing == { k \in keys :
                                 \/ ~HasKey(prev, k)
                                 \/ ~HasKey(curr, k)
                                 \/ ~PyEq(Get(prev, k), Get(curr, k)) }
                under(k) ==
                    LET sub == IF path = "" THEN k ELSE path \o "." \o k
                    IN  IF ~HasKey(prev, k) THEN Diff(sub, None, Get(curr, k))
                        ELSE IF ~HasKey(curr, k) THEN Diff(sub, Get(prev, k), None)
                        ELSE Divergence(Get(prev, k), Get(curr, k), sub)
            IN  IF differing = {} THEN None
                ELSE under(CHOOSE k \in differing :
                              \A other \in differing \ {k} : StrLess(k, other))
    ELSE IF prev.t = "list" /\ curr.t = "list"
       THEN LET differing == { i \in 1..Len(prev.e) \cup 1..Len(curr.e) :
                                 \/ i > Len(prev.e)
                                 \/ i > Len(curr.e)
                                 \/ ~PyEq(prev.e[i], curr.e[i]) }
                under(i) ==
                    LET sub == path \o "[" \o ToString(i - 1) \o "]"
                    IN  IF i > Len(prev.e) THEN Diff(sub, None, curr.e[i])
                        ELSE IF i > Len(curr.e) THEN Diff(sub, prev.e[i], None)
                        ELSE Divergence(prev.e[i], curr.e[i], sub)
            IN  IF differing = {} THEN None ELSE under(Min(differing))
    ELSE IF PyEq(prev, curr) THEN None
    ELSE Diff(IF path = "" THEN "root" ELSE path, prev, curr)

\* C21: _first_diff returns the divergence first in the traversal order: at
\* two dicts the one under the smallest key, in the order of the sorted
\* union of keys, whose two sides are not equal, a key of one side only
\* giving its path with None for the other side; at two lists the one under
\* the smallest index whose two sides are not equal; keys beginning with
\* "__" are left out at the root dict and compared like any key below it.
C21_TraversalOrder ==
    pc = "_first_diff" => ret = Divergence(args.prev, args.curr, "")

\* The documents differ under "__m" at the root, under "__m" below "a" and
\* under "b", which one side lacks: the divergence below "a" is returned.
C21_Witness ==
    /\ pc = "_first_diff"
    /\ HasKey(args.prev, "__m") /\ HasKey(args.curr, "__m")
    /\ Get(args.prev, "__m") # Get(args.curr, "__m")
    /\ HasKey(args.prev, "b") /\ ~HasKey(args.curr, "b")
    /\ ret = Diff("a.__m", Str("a"), Str("b"))

\* C22: diff_changed(prev, curr) is true exactly when _first_diff(prev, curr)
\* reports a difference, and a document compared with what the store
\* returns for it (its tuples read back as lists) is unchanged for both.
C22_DetectorsAgree ==
    /\ pc = "_first_diff" =>
          /\ (ret # None) <=> diff_changed(args.prev, args.curr)
          /\ args.prev = Loaded(args.curr) => ret = None
    /\ pc = "diff_changed" =>
          /\ ret.b <=> (_first_diff(args.prev, args.curr, "") # None)
          /\ args.prev = Loaded(args.curr) => ~ret.b

(***************************************************************************)
(* The order of the steps of a run (under SpecRun).                        *)
(***************************************************************************)
\* The notifications of a change among the messages posted.
ChangeNotes == { i \in 1..Len(args.sent) : args.sent[i].message # "Echec Portad" }

\* The archive of the run and LAST_SNAPSHOT both hold the fetched document.
BothWritten(fs) ==
    /\ Exists(fs, ArchiveName(Now)) /\ fs[ArchiveName(Now)] = Complete(args.data)
    /\ Exists(fs, LAST_SNAPSHOT) /\ fs[LAST_SNAPSHOT] = Complete(args.data)

\* C23: a notification of a change is posted only in the step after the
\* summary, the summary is made only after cleanup_old_snapshots has run and
\* only with a previous snapshot, and cleanup_old_snapshots starts only when
\* the second write of save_snapshot is in place; so whenever a change has
\* been notified there was a previous snapshot and both files hold the
\* fetched document; a run without previous snapshot posts no notification
\* of a change and, returning 0, has saved the document; a run whose save
\* failed posts none and returns 1.
C23_NotifyAfterSave ==
    /\ [](/\ ChangeNotes # {} =>
               /\ args.previous # None
               /\ BothWritten(args.fs)
               /\ "save" \notin args.failed
          /\ PastLoad /\ args.previous = None =>
               /\ ChangeNotes = {}
               /\ pc = "exit" /\ ret = Num(0) => BothWritten(args.fs)
          /\ "save" \in args.failed =>
               /\ ChangeNotes = {}
               /\ pc \in {"except", "exit", "crashed"}
               /\ pc = "exit" => ret = Num(1))
    /\ [][/\ Len(args'.sent) > Len(args.sent) => pc \in {"send_pushover", "except"}
          /\ pc' = "send_pushover" => pc = "summarize_changes"
          /\ pc' = "summarize_changes" =>
                pc = "cleanup_old_snapshots" /\ args.previous # None
          /\ pc' = "cleanup_old_snapshots" =>
                pc = "replace" /\ args.path = LAST_SNAPSHOT /\ BothWritten(args'.fs)]_vars

\* A run with all the retained archives and a previous snapshot saved the
\* changed document, pruned the oldest archive and then posted the change.
C23_Witness ==
    /\ pc = "exit"
    /\ ret = Num(0)
    /\ Len(args.sent) = 1
    /\ ChangeNotes = {1}
    /\ args.sent[1].outcome = "200"
    /\ BothWritten(args.fs)
    /\ Exists(args.before, ArchiveName(Stamp(1)))
    /\ ~Exists(args.fs, ArchiveName(Stamp(1)))

====
